---- MODULE Spec2Model ----
(***************************************************************************)
(* Model of the markup-safe find/replace engine of js/idml-processor.js:   *)
(* the block-level substitution (_normalizedReplace), the cross-block      *)
(* fallback (_replaceAcrossContentBlocks), the two unit-level entry points *)
(* (performXMLTextReplacement, performXMLTextReplacementOnce) and the      *)
(* walker processReplacements.                                             *)
(*                                                                         *)
(* Strings are TLA+ strings; all offsets are 0-based as in the JavaScript  *)
(* source (Slice(s, a, b) is s.slice(a, b)).  A value that the source      *)
(* binds to a local and then uses several times is passed on as an         *)
(* operator parameter (the operators named ...At, ...With, ...Step).       *)
(***************************************************************************)
EXTENDS Integers, Sequences, FiniteSets, TLC

(***************************************************************************)
(* JavaScript string primitives used by the source.                        *)
(***************************************************************************)
Max2(a, b) == IF a >= b THEN a ELSE b

Min2(a, b) == IF a <= b THEN a ELSE b

\* Relative index of String.prototype.slice: negative counts from the end,
\* everything is clamped into 0..Len(s).
SliceIndex(s, k) ==
    IF k < 0
    THEN (IF Len(s) + k > 0 THEN Len(s) + k ELSE 0)
    ELSE (IF k < Len(s) THEN k ELSE Len(s))

SubSeqOrEmpty(s, from, to) == IF from >= to THEN "" ELSE SubSeq(s, from + 1, to)

\* s.slice(a, b)
Slice(s, a, b) == SubSeqOrEmpty(s, SliceIndex(s, a), SliceIndex(s, b))

\* s.slice(a)
SliceFrom(s, a) == SubSeqOrEmpty(s, SliceIndex(s, a), Len(s))

\* s[i] for an index inside the string
CharAt(s, i) == SubSeq(s, i + 1, i + 1)

\* s.startsWith(p, i)
StartsWithAt(s, i, p) ==
    /\ i >= 0
    /\ i + Len(p) <= Len(s)
    /\ SubSeq(s, i + 1, i + Len(p)) = p

\* the least member of a set of offsets, -1 for the empty set
FirstOf(S) == IF S = {} THEN -1 ELSE CHOOSE i \in S : \A j \in S : i <= j

\* the leftmost occurrence of t in s at or after offset k, -1 if none
IndexOfFrom(s, t, k) ==
    FirstOf({i \in k..(Len(s) - Len(t)) : SubSeq(s, i + 1, i + Len(t)) = t})

\* s.indexOf(t, from): the start position is clamped into 0..Len(s)
IndexOf(s, t, from) ==
    IndexOfFrom(s, t, IF from < 0 THEN 0 ELSE IF from > Len(s) THEN Len(s) ELSE from)

UpperAlphabet == "ABCDEFGHIJKLMNOPQRSTUVWXYZ"

LowerAlphabet == "abcdefghijklmnopqrstuvwxyz"

DigitAlphabet == "0123456789"

\* one character of s.toLowerCase() (ASCII range)
LowerCharAt(c, k) == IF k = -1 THEN c ELSE CharAt(LowerAlphabet, k)

LowerChar(c) == LowerCharAt(c, IndexOfFrom(UpperAlphabet, c, 0))

\* s.toLowerCase(), character by character
RECURSIVE ToLowerCase(_)
ToLowerCase(s) ==
    IF Len(s) = 0 THEN ""
    ELSE IF Len(s) = 1 THEN LowerChar(s)
    ELSE ToLowerCase(SubSeq(s, 1, Len(s) \div 2))
             \o ToLowerCase(SubSeq(s, Len(s) \div 2 + 1, Len(s)))

\* /[\s\u00A0]/.test(ch), over the whitespace characters of the model's alphabet
IsSpace(ch) == ch \in {" ", "\t", "\n", "\r"}

\* isWordChar: /[A-Za-z0-9_]/.test(ch)
isWordChar(ch) ==
    IndexOfFrom(UpperAlphabet \o LowerAlphabet \o DigitAlphabet \o "_", ch, 0) # -1

RECURSIVE TrimStart(_)
TrimStart(s) ==
    IF s # "" /\ IsSpace(Head(s)) THEN TrimStart(Tail(s)) ELSE s

RECURSIVE TrimEnd(_)
TrimEnd(s) ==
    IF s # "" /\ IsSpace(CharAt(s, Len(s) - 1))
    THEN TrimEnd(SubSeq(s, 1, Len(s) - 1))
    ELSE s

\* s.trim()
Trim(s) == TrimEnd(TrimStart(s))

\* end (exclusive) of the maximal whitespace run around offset j
RECURSIVE SpaceRunEnd(_, _)
SpaceRunEnd(s, j) ==
    IF j < Len(s) /\ IsSpace(CharAt(s, j)) THEN SpaceRunEnd(s, j + 1) ELSE j

(***************************************************************************)
(* _normalizedReplace: entity layer, whitespace layer, matcher, resolver   *)
(* and splice loop.                                                        *)
(***************************************************************************)
\* The five predefined entities and the characters they decode to, in the
\* order in which the source tests and replaces them.
Entities ==
    << [raw |-> "&amp;",  ch |-> "&"],
       [raw |-> "&lt;",   ch |-> "<"],
       [raw |-> "&gt;",   ch |-> ">"],
       [raw |-> "&quot;", ch |-> "\""],
       [raw |-> "&apos;", ch |-> "'"] >>

\* The entity (index into Entities) that starts at offset i of str, 0 if none
\* (rest.startsWith('&amp;') ...; the five prefixes are mutually exclusive).
EntityAt(str, i) ==
    IF \E e \in 1..Len(Entities) : StartsWithAt(str, i, Entities[e].raw)
    THEN CHOOSE e \in 1..Len(Entities) : StartsWithAt(str, i, Entities[e].raw)
    ELSE 0

RECURSIVE unescapeLoop(_, _, _, _)
\* a step that records the offset in the decoded text, not in the raw text
unescapeStepDecodedOffset(str, i, out, map, e) ==
    IF e # 0
    THEN unescapeLoop(str, i + Len(Entities[e].raw), out \o Entities[e].ch,
                      Append(map, Len(out)))
    ELSE unescapeLoop(str, i + 1, out \o CharAt(str, i), Append(map, Len(out)))

unescapeStep(str, i, out, map, e) ==
    IF e # 0
    THEN unescapeLoop(str, i + Len(Entities[e].raw), out \o Entities[e].ch, Append(map, i))
    ELSE unescapeLoop(str, i + 1, out \o CharAt(str, i), Append(map, i))

unescapeLoop(str, i, out, map) ==
    IF i >= Len(str) THEN [unescaped |-> out, mapUnesc |-> map]
    ELSE unescapeStep(str, i, out, map, EntityAt(str, i))

\* unescapeWithMap(str): decoded text and, per decoded character, the raw
\* offset where its entity or literal character starts.
unescapeWithMap(str) == unescapeLoop(str, 0, "", << >>)

RECURSIVE normalizeLoop(_, _, _, _)
normalizeLoop(str, i, norm, map) ==
    IF i >= Len(str) THEN [norm |-> norm, map |-> map]
    ELSE IF IsSpace(CharAt(str, i))
         THEN normalizeLoop(str, SpaceRunEnd(str, i), norm \o " ", Append(map, i))
         ELSE normalizeLoop(str, i + 1, norm \o CharAt(str, i), Append(map, i))

\* buildNormalized(str): whitespace runs collapsed to one space; map[k] is the
\* offset in str where normalized character k starts.
buildNormalized(str) == normalizeLoop(str, 0, "", << >>)

\* findText.replace(/[\s\u00A0]+/g, ' ').trim()
normFindOf(findText) == Trim(buildNormalized(findText).norm)

\* a boundary test that looks at the preceding character only
boundaryOkBefore(execSource, term, foundAt) ==
    \/ foundAt - 1 < 0
    \/ ~isWordChar(CharAt(execSource, foundAt - 1))

\* the boundary test of the whole-word search at a found position
boundaryOk(execSource, term, foundAt) ==
    /\ \/ foundAt - 1 < 0
       \/ ~isWordChar(CharAt(execSource, foundAt - 1))
    /\ \/ foundAt + Len(term) >= Len(execSource)
       \/ ~isWordChar(CharAt(execSource, foundAt + Len(term)))

\* The whole-word search loop (wholeWords branch): idx = foundAt + 1 after
\* every candidate, accepted or not.
RECURSIVE wholeWordSearch(_, _, _, _, _)
wholeWordStep(execSource, term, foundAt, firstOnly, matches, hit) ==
    IF hit /\ firstOnly
    THEN Append(matches, [start |-> foundAt, end |-> foundAt + Len(term)])
    ELSE wholeWordSearch(execSource, term, foundAt + 1, firstOnly,
                         IF hit
                         THEN Append(matches, [start |-> foundAt,
                                               end |-> foundAt + Len(term)])
                         ELSE matches)

wholeWordAt(execSource, term, foundAt, firstOnly, matches) ==
    IF foundAt = -1 THEN matches
    ELSE wholeWordStep(execSource, term, foundAt, firstOnly, matches,
                       boundaryOk(execSource, term, foundAt))

wholeWordSearch(execSource, term, idx, firstOnly, matches) ==
    wholeWordAt(execSource, term, IndexOf(execSource, term, idx), firstOnly, matches)

\* The plain search loop (else branch): idx = foundAt + searchFind.length.
RECURSIVE plainSearch(_, _, _, _, _)
plainAt(searchOrig, searchFind, foundAt, firstOnly, matches) ==
    IF foundAt = -1 THEN matches
    ELSE IF firstOnly
         THEN Append(matches, [start |-> foundAt, end |-> foundAt + Len(searchFind)])
         ELSE plainSearch(searchOrig, searchFind, foundAt + Len(searchFind), firstOnly,
                          Append(matches, [start |-> foundAt,
                                           end |-> foundAt + Len(searchFind)]))

plainSearch(searchOrig, searchFind, idx, firstOnly, matches) ==
    plainAt(searchOrig, searchFind, IndexOf(searchOrig, searchFind, idx),
            firstOnly, matches)

\* the search over the case-folded haystack and term
searchMatches(src, term, wholeWords, firstOnly) ==
    IF wholeWords
    THEN wholeWordSearch(src, term, 0, firstOnly, << >>)
    ELSE plainSearch(src, term, 0, firstOnly, << >>)

\* The match search of _normalizedReplace, copied in
\* _replaceAcrossContentBlocks: spans in the normalized haystack.
findMatches(normText, normFind, opts, firstOnly) ==
    IF opts.caseSensitive
    THEN searchMatches(normText, normFind, opts.wholeWords, firstOnly)
    ELSE searchMatches(ToLowerCase(normText), ToLowerCase(normFind),
                       opts.wholeWords, firstOnly)

\* Span resolution: the raw range [origStart, origEnd) of one normalized match
\* m, through the whitespace map and then the entity map.
resolveEnd(originalText, unesc, unescEndIndex) ==
    IF unescEndIndex < Len(unesc.mapUnesc)
    THEN unesc.mapUnesc[unescEndIndex + 1]
    ELSE Len(originalText)

resolveSpan(originalText, unesc, normd, m) ==
    [normStart |-> m.start, normEnd |-> m.end,
     origStart |-> unesc.mapUnesc[normd.map[m.start + 1] + 1],
     origEnd   |-> resolveEnd(originalText, unesc,
                              IF m.end < Len(normd.map)
                              THEN normd.map[m.end + 1]
                              ELSE Len(unesc.unescaped))]

\* What is inserted in place of a resolved span of a block.
spliceText(replaceText) == replaceText

\* newText.slice(0, origStart) + replaceText + newText.slice(origEnd)
spliceOne(newText, r, replaceText) ==
    Slice(newText, 0, r.origStart) \o spliceText(replaceText)
        \o SliceFrom(newText, r.origEnd)

\* The splice loop: matches are applied from the last to the first, every
\* range being one resolved in the original text.
RECURSIVE spliceLoop(_, _, _, _, _, _, _, _)
spliceWith(originalText, unesc, normd, matches, i, replaceText, newText, debugMatches, r) ==
    spliceLoop(originalText, unesc, normd, matches, i - 1, replaceText,
               spliceOne(newText, r, replaceText), Append(debugMatches, r))

spliceLoop(originalText, unesc, normd, matches, i, replaceText, newText, debugMatches) ==
    IF i < 1
    THEN [newText |-> newText, replacementCount |-> Len(debugMatches),
          debugMatches |-> debugMatches, matches |-> matches]
    ELSE spliceWith(originalText, unesc, normd, matches, i, replaceText, newText,
                    debugMatches, resolveSpan(originalText, unesc, normd, matches[i]))

\* the part of _normalizedReplace after the matches are known (no match:
\* the original text, count 0)
replaceMatches(originalText, unesc, normd, matches, replaceText) ==
    spliceLoop(originalText, unesc, normd, matches, Len(matches), replaceText,
               originalText, << >>)

normalizedReplaceOn(originalText, unesc, normd, findText, replaceText, opts, firstOnly) ==
    replaceMatches(originalText, unesc, normd,
                   findMatches(normd.norm, normFindOf(findText), opts, firstOnly),
                   replaceText)

normalizedReplaceIn(originalText, unesc, findText, replaceText, opts, firstOnly) ==
    normalizedReplaceOn(originalText, unesc, buildNormalized(unesc.unescaped),
                        findText, replaceText, opts, firstOnly)

\* _normalizedReplace(originalText, findText, replaceText, options, firstOnly)
_normalizedReplace(originalText, findText, replaceText, opts, firstOnly) ==
    normalizedReplaceIn(originalText, unescapeWithMap(originalText),
                        findText, replaceText, opts, firstOnly)

\* replaceTextContent (firstOnly = false) / replaceTextContentOnce (true)
replaceTextContent(text, findText, replaceText, opts, firstOnly) ==
    _normalizedReplace(text, findText, replaceText, opts, firstOnly)

(***************************************************************************)
(* Regular expressions over the unit's markup.                             *)
(***************************************************************************)
NoBlock == [fullStart |-> -1, innerStart |-> -1, innerEnd |-> -1, fullEnd |-> -1]

\* One exec of /<NAME[^>]*>(.*?)<\/NAME>/gs with lastIndex = from: leftmost
\* "<NAME" at p, then up to the first ">" at q, then lazily up to the first
\* "</NAME>" at r.  When that fails at the leftmost candidate it fails at
\* every later one.
elementCloseAt(name, p, q, r) ==
    IF r = -1 THEN NoBlock
    ELSE [fullStart |-> p, innerStart |-> q + 1, innerEnd |-> r,
          fullEnd |-> r + Len("</" \o name \o ">")]

elementOpenEndAt(xml, name, p, q) ==
    IF q = -1 THEN NoBlock
    ELSE elementCloseAt(name, p, q, IndexOf(xml, "</" \o name \o ">", q + 1))

elementOpenAt(xml, name, p) ==
    IF p = -1 THEN NoBlock
    ELSE elementOpenEndAt(xml, name, p, IndexOf(xml, ">", p + Len("<" \o name)))

elementMatchFrom(xml, name, from) ==
    elementOpenAt(xml, name, IndexOf(xml, "<" \o name, from))

\* The replacement-pattern expansion of String.prototype.replace for a string
\* pattern (no captures): $$, $& and $' are special, all else is literal.  (The
\* fourth pattern, $ followed by a grave accent, needs a character that is not
\* in the model's alphabet.)
substitutionPiece(matched, str, position, c) ==
    CASE c = "$" -> "$"
      [] c = "&" -> matched
      [] OTHER   -> SliceFrom(str, position + Len(matched))

RECURSIVE getSubstitution(_, _, _, _, _)
getSubstitution(matched, str, position, replacement, i) ==
    IF i >= Len(replacement) THEN ""
    ELSE IF CharAt(replacement, i) = "$" /\ i + 1 < Len(replacement)
              /\ CharAt(replacement, i + 1) \in {"$", "&", "'"}
         THEN substitutionPiece(matched, str, position, CharAt(replacement, i + 1))
                  \o getSubstitution(matched, str, position, replacement, i + 2)
         ELSE CharAt(replacement, i)
                  \o getSubstitution(matched, str, position, replacement, i + 1)

stringReplaceAt(str, pattern, replacement, pos) ==
    IF pos = -1 THEN str
    ELSE Slice(str, 0, pos)
             \o getSubstitution(pattern, str, pos, replacement, 0)
             \o SliceFrom(str, pos + Len(pattern))

\* str.replace(pattern, replacement) with a string pattern: first occurrence only
stringReplace(str, pattern, replacement) ==
    stringReplaceAt(str, pattern, replacement, IndexOf(str, pattern, 0))

\* the value the replace callback returns for one <Content> element:
\* match.replace(contentText, newText); with firstOnly the element is returned
\* as it is unless the block reported a replacement
editedElement(match, contentText, res, firstOnly) ==
    IF firstOnly /\ res.replacementCount = 0
    THEN match
    ELSE stringReplace(match, contentText, res.newText)

\* newXml.replace(contentRegex, callback): every <Content> element of xml is
\* handed to the block substitution.  With firstOnly the callback stops
\* editing after the first block that reported a replacement (the done flag).
RECURSIVE contentPass(_, _, _, _, _, _, _, _)
contentPassNext(xml, findText, replaceText, opts, firstOnly, b, replaced, out2, count2) ==
    IF firstOnly /\ replaced > 0
    THEN [newXml |-> out2 \o SliceFrom(xml, b.fullEnd), count |-> count2]
    ELSE contentPass(xml, b.fullEnd, findText, replaceText, opts, firstOnly,
                     out2, count2)

contentPassEdit(xml, from, findText, replaceText, opts, firstOnly, out, count, b, res) ==
    contentPassNext(xml, findText, replaceText, opts, firstOnly, b,
                    res.replacementCount,
                    out \o Slice(xml, from, b.fullStart)
                        \o editedElement(Slice(xml, b.fullStart, b.fullEnd),
                                         Slice(xml, b.innerStart, b.innerEnd),
                                         res, firstOnly),
                    count + res.replacementCount)

contentPassAt(xml, from, findText, replaceText, opts, firstOnly, out, count, b) ==
    IF b = NoBlock
    THEN [newXml |-> out \o SliceFrom(xml, from), count |-> count]
    ELSE contentPassEdit(xml, from, findText, replaceText, opts, firstOnly, out,
                         count, b,
                         replaceTextContent(Slice(xml, b.innerStart, b.innerEnd),
                                            findText, replaceText, opts, firstOnly))

contentPass(xml, from, findText, replaceText, opts, firstOnly, out, count) ==
    contentPassAt(xml, from, findText, replaceText, opts, firstOnly, out, count,
                  elementMatchFrom(xml, "Content", from))

\* newXml.replace(charStyleRegex, callback): the <Content> elements inside
\* every <CharacterStyleRange> element are processed again, and the element is
\* rewritten by match.replace(charContent, updatedCharContent).
RECURSIVE charStylePass(_, _, _, _, _, _, _, _)
charStylePassNext(xml, findText, replaceText, opts, firstOnly, b, replaced, out2, count2) ==
    IF firstOnly /\ replaced > 0
    THEN [newXml |-> out2 \o SliceFrom(xml, b.fullEnd), count |-> count2]
    ELSE charStylePass(xml, b.fullEnd, findText, replaceText, opts, firstOnly,
                       out2, count2)

charStylePassEdit(xml, from, findText, replaceText, opts, firstOnly, out, count, b, inner) ==
    charStylePassNext(xml, findText, replaceText, opts, firstOnly, b, inner.count,
                      out \o Slice(xml, from, b.fullStart)
                          \o stringReplace(Slice(xml, b.fullStart, b.fullEnd),
                                           Slice(xml, b.innerStart, b.innerEnd),
                                           inner.newXml),
                      count + inner.count)

charStylePassAt(xml, from, findText, replaceText, opts, firstOnly, out, count, b) ==
    IF b = NoBlock
    THEN [newXml |-> out \o SliceFrom(xml, from), count |-> count]
    ELSE charStylePassEdit(xml, from, findText, replaceText, opts, firstOnly, out,
                           count, b,
                           contentPass(Slice(xml, b.innerStart, b.innerEnd), 0,
                                       findText, replaceText, opts, firstOnly, "", 0))

charStylePass(xml, from, findText, replaceText, opts, firstOnly, out, count) ==
    charStylePassAt(xml, from, findText, replaceText, opts, firstOnly, out, count,
                    elementMatchFrom(xml, "CharacterStyleRange", from))

(***************************************************************************)
(* _replaceAcrossContentBlocks: the cross-block fallback.                  *)
(***************************************************************************)
\* The exec loop that collects the <Content> blocks of a unit.
RECURSIVE collectBlocks(_, _, _)
collectBlocksAt(xml, blocks, b) ==
    IF b = NoBlock THEN blocks
    ELSE collectBlocks(xml, b.fullEnd,
                       Append(blocks, [inner |-> Slice(xml, b.innerStart, b.innerEnd),
                                       innerStart |-> b.innerStart,
                                       innerEnd |-> b.innerEnd,
                                       fullStart |-> b.fullStart,
                                       fullEnd |-> b.fullEnd]))

collectBlocks(xml, from, blocks) ==
    collectBlocksAt(xml, blocks, elementMatchFrom(xml, "Content", from))

\* The null entry pushed into combinedMap for the separator between blocks.
NullEntry == [blockIndex |-> -1, innerIndex |-> -1]

\* combinedChars / combinedMap: every block decoded, followed by one space.
\* Block indices are 0-based as in the source.
RECURSIVE combineBlocks(_, _, _, _)
combineBlockWith(blocks, bi, combined, combinedMap, u) ==
    combineBlocks(blocks, bi + 1,
                  combined \o u.unescaped \o " ",
                  combinedMap
                      \o [k \in 1..Len(u.mapUnesc) |->
                             [blockIndex |-> bi, innerIndex |-> u.mapUnesc[k]]]
                      \o << NullEntry >>)

combineBlocks(blocks, bi, combined, combinedMap) ==
    IF bi >= Len(blocks) THEN [combined |-> combined, combinedMap |-> combinedMap]
    ELSE combineBlockWith(blocks, bi, combined, combinedMap,
                          unescapeWithMap(blocks[bi + 1].inner))

\* text.replace(/pat/g, rep) for a literal pattern
RECURSIVE replaceAllLiteral(_, _, _)
replaceAllLiteralAt(text, pat, rep, k) ==
    IF k = -1 THEN text
    ELSE Slice(text, 0, k) \o rep
             \o replaceAllLiteral(SliceFrom(text, k + Len(pat)), pat, rep)

replaceAllLiteral(text, pat, rep) ==
    replaceAllLiteralAt(text, pat, rep, IndexOf(text, pat, 0))

\* _escapeForXML: & first, then < > " '
RECURSIVE escapeChain(_, _)
escapeChain(text, e) ==
    IF e > Len(Entities) THEN text
    ELSE escapeChain(replaceAllLiteral(text, Entities[e].ch, Entities[e].raw), e + 1)

_escapeForXML(text) == escapeChain(text, 1)

\* _unescapeForXML: &amp; first, then &lt; &gt; &quot; &apos;
RECURSIVE unescapeChain(_, _)
unescapeChain(text, e) ==
    IF e > Len(Entities) THEN text
    ELSE unescapeChain(replaceAllLiteral(text, Entities[e].raw, Entities[e].ch), e + 1)

_unescapeForXML(text) == unescapeChain(text, 1)

\* End offsets j such that one iteration of the group
\*   \s*<Content[^>]*>[\s\S]*?<\/Content>\s*
\* matches s[i .. j).  The lazy [\s\S]*? stops at a later </Content> when the
\* rest of the pattern needs it (backtracking).
RECURSIVE closeTagEnds(_, _)
closeTagEndsAt(s, r) ==
    IF r = -1 THEN {}
    ELSE (r + Len("</Content>"))..SpaceRunEnd(s, r + Len("</Content>"))
             \cup closeTagEnds(s, r + 1)

closeTagEnds(s, from) == closeTagEndsAt(s, IndexOf(s, "</Content>", from))

groupOpenEnd(s, q) == IF q = -1 THEN {} ELSE closeTagEnds(s, q + 1)

groupOpenAt(s, start) ==
    IF ~StartsWithAt(s, start, "<Content") THEN {}
    ELSE groupOpenEnd(s, IndexOf(s, ">", start + Len("<Content")))

groupEnds(s, i) == groupOpenAt(s, SpaceRunEnd(s, i))

RECURSIVE groupsFrom(_, _)
groupsFrom(s, i) ==
    \E j \in groupEnds(s, i) : j = Len(s) \/ groupsFrom(s, j)

\* onlyContentsRe.test(between), with
\* onlyContentsRe = /^(?:\s*<Content[^>]*>[\s\S]*?<\/Content>\s*)+$/
onlyContentsRe(between) == groupsFrom(between, 0)

\* (region.match(/<Content[^>]*>/g) || []).length
RECURSIVE countOpenTags(_, _)
countOpenEnd(region, q) == IF q = -1 THEN 0 ELSE 1 + countOpenTags(region, q + 1)

countOpenAt(region, p) ==
    IF p = -1 THEN 0
    ELSE countOpenEnd(region, IndexOf(region, ">", p + Len("<Content")))

countOpenTags(region, from) == countOpenAt(region, IndexOf(region, "<Content", from))

\* (region.match(/<\/Content>/g) || []).length
RECURSIVE countCloseTags(_, _)
countCloseAt(region, r) ==
    IF r = -1 THEN 0 ELSE 1 + countCloseTags(region, r + Len("</Content>"))

countCloseTags(region, from) == countCloseAt(region, IndexOf(region, "</Content>", from))

\* Number of characters kept on each side of the edited region by the local
\* tag-balance check.
BalanceWindow == 100

tagsBalanced(testRegion) == countOpenTags(testRegion, 0) = countCloseTags(testRegion, 0)

\* The local tag-balance check of a candidate fragment.
balanced(candidateXml, fullStart, fullEnd) ==
    tagsBalanced(Slice(candidateXml, Max2(0, fullStart - BalanceWindow),
                       Min2(Len(candidateXml), fullEnd + BalanceWindow)))

\* The safety gate on the raw markup from the first to the last block.
safetyGate(xmlContent, blocks, startBlock, endBlock) ==
    onlyContentsRe(Slice(xmlContent, blocks[startBlock + 1].fullStart,
                         blocks[endBlock + 1].fullEnd))

\* normMap[k], undefined (null) outside the map
normMapEntry(normMap, k) ==
    IF k >= 0 /\ k < Len(normMap) THEN normMap[k + 1] ELSE NullEntry

\* startBlock / startInner / endBlock / endInner of a match
crossSpan(match, startMapEntry, endMapEntry) ==
    [normStart |-> match.start, normEnd |-> match.end,
     startBlock |-> startMapEntry.blockIndex,
     endBlock |-> endMapEntry.blockIndex,
     startInner |-> startMapEntry.innerIndex,
     endInner |-> endMapEntry.innerIndex + 1]

\* the multi-block bounds check on startInner and endInner
insideBlocks(blocks, sp) ==
    \/ sp.startBlock = sp.endBlock
    \/ ~ \/ sp.startInner < 0
         \/ sp.startInner > Len(blocks[sp.startBlock + 1].inner)
         \/ sp.endInner < 0
         \/ sp.endInner > Len(blocks[sp.endBlock + 1].inner)

\* the new element: preserved prefix + replacement + preserved suffix,
\* unescaped and then escaped as a whole
middleElement(blocks, sp, replaceText) ==
    "<Content>"
        \o _escapeForXML(
               _unescapeForXML(Slice(blocks[sp.startBlock + 1].inner, 0,
                                     Max2(0, sp.startInner)))
                   \o replaceText
                   \o _unescapeForXML(SliceFrom(blocks[sp.endBlock + 1].inner,
                                                Max2(0, sp.endInner))))
        \o "</Content>"

\* before + middle + after, cut at the block offsets of the original fragment
candidateOf(newXml, blocks, sp, replaceText) ==
    Slice(newXml, 0, blocks[sp.startBlock + 1].fullStart)
        \o middleElement(blocks, sp, replaceText)
        \o SliceFrom(newXml, blocks[sp.endBlock + 1].fullEnd)

\* The apply loop over the matches, last to first.
RECURSIVE crossApply(_, _, _, _, _, _, _, _, _)
crossCandidate(xmlContent, blocks, normMap, matches, mi, replaceText, firstOnly, newXml, debugMatches, sp, candidateXml) ==
    IF ~balanced(candidateXml, blocks[sp.startBlock + 1].fullStart,
                 blocks[sp.endBlock + 1].fullEnd)
    THEN crossApply(xmlContent, blocks, normMap, matches, mi - 1, replaceText,
                    firstOnly, newXml, debugMatches)
    ELSE IF firstOnly
         THEN [newXml |-> candidateXml, count |-> Len(debugMatches) + 1,
               debugMatches |-> Append(debugMatches, sp), matches |-> matches]
         ELSE crossApply(xmlContent, blocks, normMap, matches, mi - 1, replaceText,
                         firstOnly, candidateXml, Append(debugMatches, sp))

crossChecked(xmlContent, blocks, normMap, matches, mi, replaceText, firstOnly, newXml, debugMatches, sp) ==
    IF ~insideBlocks(blocks, sp)
         \/ ~safetyGate(xmlContent, blocks, sp.startBlock, sp.endBlock)
    THEN crossApply(xmlContent, blocks, normMap, matches, mi - 1, replaceText,
                    firstOnly, newXml, debugMatches)
    ELSE crossCandidate(xmlContent, blocks, normMap, matches, mi, replaceText,
                        firstOnly, newXml, debugMatches, sp,
                        candidateOf(newXml, blocks, sp, replaceText))

crossMatch(xmlContent, blocks, normMap, matches, mi, replaceText, firstOnly, newXml, debugMatches, startMapEntry, endMapEntry) ==
    IF startMapEntry = NullEntry \/ endMapEntry = NullEntry
    THEN crossApply(xmlContent, blocks, normMap, matches, mi - 1, replaceText,
                    firstOnly, newXml, debugMatches)
    ELSE crossChecked(xmlContent, blocks, normMap, matches, mi, replaceText,
                      firstOnly, newXml, debugMatches,
                      crossSpan(matches[mi], startMapEntry, endMapEntry))

crossApply(xmlContent, blocks, normMap, matches, mi, replaceText, firstOnly, newXml, debugMatches) ==
    IF mi < 1
    THEN [newXml |-> newXml, count |-> Len(debugMatches),
          debugMatches |-> debugMatches, matches |-> matches]
    ELSE crossMatch(xmlContent, blocks, normMap, matches, mi, replaceText,
                    firstOnly, newXml, debugMatches,
                    normMapEntry(normMap, matches[mi].start),
                    normMapEntry(normMap, matches[mi].end - 1))

\* the apply loop started on all matches (no match: the fragment, count 0)
crossApplyAll(xmlContent, blocks, normMap, matches, replaceText, firstOnly) ==
    crossApply(xmlContent, blocks, normMap, matches, Len(matches), replaceText,
               firstOnly, xmlContent, << >>)

\* normMap: per normalized character of the combined text, its map entry
normMapOf(c, normd) ==
    [k \in 1..Len(normd.map) |-> c.combinedMap[normd.map[k] + 1]]

crossReplaceOn(xmlContent, blocks, c, normd, findText, replaceText, opts, firstOnly) ==
    crossApplyAll(xmlContent, blocks, normMapOf(c, normd),
                  findMatches(normd.norm, normFindOf(findText), opts, firstOnly),
                  replaceText, firstOnly)

crossReplaceIn(xmlContent, blocks, c, findText, replaceText, opts, firstOnly) ==
    crossReplaceOn(xmlContent, blocks, c, buildNormalized(c.combined),
                   findText, replaceText, opts, firstOnly)

crossReplaceBlocks(xmlContent, blocks, findText, replaceText, opts, firstOnly) ==
    IF Len(blocks) = 0
    THEN [newXml |-> xmlContent, count |-> 0, debugMatches |-> << >>,
          matches |-> << >>]
    ELSE crossReplaceIn(xmlContent, blocks, combineBlocks(blocks, 0, "", << >>),
                        findText, replaceText, opts, firstOnly)

\* _replaceAcrossContentBlocks(xmlContent, findText, replaceText, options, firstOnly)
_replaceAcrossContentBlocks(xmlContent, findText, replaceText, opts, firstOnly) ==
    crossReplaceBlocks(xmlContent, collectBlocks(xmlContent, 0, << >>),
                       findText, replaceText, opts, firstOnly)

(***************************************************************************)
(* The two unit-level entry points.                                        *)
(***************************************************************************)
\* the result when a block pass replaced something
blockLevelResult(p) ==
    [newXml |-> p.newXml, count |-> p.count, debugMatches |-> << >>,
     matchType |-> "block-level"]

\* if (crossResult.count > 0) { newXml = crossResult.newXml; ... }
crossFallback(p, crossResult) ==
    IF crossResult.count > 0
    THEN [newXml |-> crossResult.newXml, count |-> crossResult.count,
          debugMatches |-> crossResult.debugMatches, matchType |-> "cross-block"]
    ELSE blockLevelResult(p)

\* if (count === 0) the cross-block fallback runs on the fragment as read
afterBlockPasses(xmlContent, findText, replaceText, opts, firstOnly, p) ==
    IF p.count = 0
    THEN crossFallback(p, _replaceAcrossContentBlocks(xmlContent, findText,
                                                      replaceText, opts, firstOnly))
    ELSE blockLevelResult(p)

\* the CharacterStyleRange pass of performXMLTextReplacement runs on the
\* output of the <Content> pass and adds to its count
afterContentPass(xmlContent, findText, replaceText, opts, p) ==
    afterBlockPasses(xmlContent, findText, replaceText, opts, FALSE,
                     charStylePass(p.newXml, 0, findText, replaceText, opts, FALSE,
                                   "", p.count))

\* performXMLTextReplacement: every block, then the blocks inside
\* CharacterStyleRange elements, then the cross-block fallback.
performXMLTextReplacement(xmlContent, findText, replaceText, opts) ==
    afterContentPass(xmlContent, findText, replaceText, opts,
                     contentPass(xmlContent, 0, findText, replaceText, opts, FALSE,
                                 "", 0))

\* the CharacterStyleRange pass of performXMLTextReplacementOnce runs only
\* if (count === 0)
afterContentPassOnce(xmlContent, findText, replaceText, opts, p) ==
    IF p.count = 0
    THEN afterBlockPasses(xmlContent, findText, replaceText, opts, TRUE,
                          charStylePass(p.newXml, 0, findText, replaceText, opts,
                                        TRUE, "", 0))
    ELSE blockLevelResult(p)

\* performXMLTextReplacementOnce: stops after the first replacement.
performXMLTextReplacementOnce(xmlContent, findText, replaceText, opts) ==
    afterContentPassOnce(xmlContent, findText, replaceText, opts,
                         contentPass(xmlContent, 0, findText, replaceText, opts,
                                     TRUE, "", 0))

(***************************************************************************)
(* The well-formedness parse (DOMParser.parseFromString(xml, 'text/xml')   *)
(* followed by the parsererror test).                                      *)
(***************************************************************************)
\* an element name: the tag text up to the first space or slash
RECURSIVE tagName(_, _)
tagName(tagText, i) ==
    IF i >= Len(tagText) \/ IsSpace(CharAt(tagText, i)) \/ CharAt(tagText, i) = "/"
    THEN Slice(tagText, 0, i)
    ELSE tagName(tagText, i + 1)

RECURSIVE allDigits(_)
allDigits(t) ==
    t = "" \/ (IndexOf(DigitAlphabet, Head(t), 0) # -1 /\ allDigits(Tail(t)))

\* a reference the parser accepts without a DTD: a predefined entity or a
\* decimal character reference
validReference(name) ==
    \/ \E e \in 1..Len(Entities) : Entities[e].raw = "&" \o name \o ";"
    \/ (Len(name) > 1 /\ Head(name) = "#" /\ allDigits(Tail(name)))

RECURSIVE parseFrom(_, _, _, _)
\* an end tag: it must close the innermost open element
parseEndTag(xml, i, stack, rootSeen, q) ==
    /\ q # -1
    /\ stack # << >>
    /\ TrimEnd(Slice(xml, i + Len("</"), q)) = stack[Len(stack)]
    /\ parseFrom(xml, q + 1, SubSeq(stack, 1, Len(stack) - 1), rootSeen)

\* a processing instruction
parseInstruction(xml, stack, rootSeen, q) ==
    /\ q # -1
    /\ parseFrom(xml, q + Len("?>"), stack, rootSeen)

\* a start tag or an empty-element tag with the given name
parseNamedTag(xml, stack, rootSeen, q, tagText, name) ==
    /\ IndexOf(tagText, "<", 0) = -1
    /\ name # ""
    /\ IndexOf(UpperAlphabet \o LowerAlphabet \o "_", CharAt(name, 0), 0) # -1
    /\ ~(stack = << >> /\ rootSeen)
    /\ parseFrom(xml, q + 1,
                 IF CharAt(tagText, Len(tagText) - 1) = "/"
                 THEN stack ELSE Append(stack, name),
                 TRUE)

parseTagText(xml, stack, rootSeen, q, tagText) ==
    /\ tagText # ""
    /\ parseNamedTag(xml, stack, rootSeen, q, tagText, tagName(tagText, 0))

parseStartTag(xml, i, stack, rootSeen, q) ==
    /\ q # -1
    /\ parseTagText(xml, stack, rootSeen, q, Slice(xml, i + 1, q))

\* an entity or character reference: only inside the root element
parseReference(xml, i, stack, rootSeen, q) ==
    /\ q # -1
    /\ stack # << >>
    /\ validReference(Slice(xml, i + 1, q))
    /\ parseFrom(xml, q + 1, stack, rootSeen)

parseFrom(xml, i, stack, rootSeen) ==
    IF i >= Len(xml) THEN stack = << >> /\ rootSeen
    ELSE IF StartsWithAt(xml, i, "</")
         THEN parseEndTag(xml, i, stack, rootSeen, IndexOf(xml, ">", i))
    ELSE IF StartsWithAt(xml, i, "<?")
         THEN parseInstruction(xml, stack, rootSeen, IndexOf(xml, "?>", i + Len("<?")))
    ELSE IF StartsWithAt(xml, i, "<")
         THEN parseStartTag(xml, i, stack, rootSeen, IndexOf(xml, ">", i))
    ELSE IF StartsWithAt(xml, i, "&")
         THEN parseReference(xml, i, stack, rootSeen, IndexOf(xml, ";", i))
    ELSE /\ (stack # << >> \/ IsSpace(CharAt(xml, i)))
         /\ parseFrom(xml, i + 1, stack, rootSeen)

\* TRUE iff the parse yields no parsererror element
wellFormed(xml) == parseFrom(xml, 0, << >>, FALSE)

(***************************************************************************)
(* State.                                                                  *)
(***************************************************************************)
VARIABLES
    idmlZip,            \* this.idmlZip: entry path -> original content
    storyFiles,         \* this.storyFiles: the unit list, in walk order
    walkFiles,          \* the array the inner for-of loop is iterating
    modifiedFiles,      \* this.modifiedFiles: story path -> latest edited fragment
    replacements,       \* the Rule Set passed to processReplacements
    ruleIndex,          \* position of the outer for-of loop (1-based)
    unitIndex,          \* position of the inner for-of loop (1-based)
    xmlContent,         \* the fragment read for the visit in progress
    totalReplacements,  \* let totalReplacements
    replacementLog,     \* const replacementLog
    outputZip,          \* the archive built by createModifiedIDML
    pc,                 \* "walk", "apply", "done", "failed"; "idle" outside a run
    visits,             \* history: one record per completed visit of a rule to a unit
    uses,               \* history: numbers of loadIDML and processReplacements calls
    call,               \* arguments of a direct call of one of the substitution functions
                        \* (and, in SpecSearch, the locals of its search loop)
    ret                 \* its result

vars == << idmlZip, storyFiles, walkFiles, modifiedFiles, replacements, ruleIndex,
           unitIndex, xmlContent, totalReplacements, replacementLog, outputZip, pc,
           visits, uses, call, ret >>

walkerVars == << idmlZip, storyFiles, walkFiles, modifiedFiles, replacements,
                 ruleIndex, unitIndex, xmlContent, totalReplacements, replacementLog,
                 outputZip, pc, visits, uses >>

(***************************************************************************)
(* Bounds and input sets.                                                  *)
(***************************************************************************)
NumUnits == 2

MaxRules == 2

MaxPieces == 3

MaxElems == 3

PadLen == 90

\* options as the application passes them with both boxes unchecked
DefaultOptions == [caseSensitive |-> FALSE, wholeWords |-> FALSE]

AllOptions == [caseSensitive : BOOLEAN, wholeWords : BOOLEAN]

StoryPath(i) == "Stories/Story_u" \o CharAt(DigitAlphabet, i) \o ".xml"

\* all concatenations of at most n members of pool
RECURSIVE Concats(_, _)
Concats(pool, n) ==
    IF n = 0 THEN {""}
    ELSE Concats(pool, n - 1) \cup {t \o x : t \in Concats(pool, n - 1), x \in pool}

RECURSIVE PadText(_)
PadText(n) == IF n = 0 THEN "" ELSE "x" \o PadText(n - 1)

\* Story fragments of the walker's container.
UnitFragments ==
    { "<Story><Content>A</Content></Story>",
      "<Story><CharacterStyleRange><Content>A B</Content></CharacterStyleRange></Story>",
      "<Story><Content>A </Content><Content>B</Content></Story>" }

\* Entries of the container that are not stories: one text, one binary.
OtherEntries ==
    ("mimetype" :> "application/vnd.adobe.indesign-idml-package")
        @@ ("Resources/Images/img.png" :> "PNG-bytes")

\* Rules of the walker's Rule Sets; replaceAll is the rule's scope
\* (replacement.options.replaceAll).
RulePool ==
    { [find |-> "A",   replace |-> "B", replaceAll |-> TRUE],
      [find |-> "B",   replace |-> "C", replaceAll |-> TRUE],
      [find |-> "A",   replace |-> "B", replaceAll |-> FALSE],
      [find |-> "A",   replace |-> "<", replaceAll |-> TRUE],
      [find |-> "A",   replace |-> "<", replaceAll |-> FALSE],
      [find |-> "A B", replace |-> "C", replaceAll |-> FALSE],
      [find |-> "A",   replace |-> "",  replaceAll |-> FALSE] }

RuleSets == UNION { [1..n -> RulePool] : n \in 1..MaxRules }

\* Inner texts of single blocks.
BlockPieces == {"a", " ", "&amp;", "<B/>"}

BlockTexts ==
    Concats(BlockPieces, MaxPieces)
        \cup {"concatenate cats", "a cat ran", "a a a", "Tom &amp; Jerry",
              "Tom and Jerry"}

\* (find, replace) pairs of the direct block-level calls
BlockQueries ==
    { [find |-> "a",           replace |-> "X"],
      [find |-> "a a",         replace |-> "X"],
      [find |-> "&",           replace |-> "and"],
      [find |-> "b",           replace |-> "X"],
      [find |-> "a",           replace |-> "<&>"],
      [find |-> "cat",         replace |-> "dog"],
      [find |-> "Tom & Jerry", replace |-> "Cats"],
      [find |-> "and",         replace |-> "&"] }

\* Story fragments of the direct unit-level calls.
XmlPieces ==
    {"<Content>Hello </Content>", "<Content>World</Content>", "<Other/>", "\n"}

\* a fragment whose first element carries a long attribute value
PaddedFragment ==
    "<Story><Content Self=\"" \o PadText(PadLen)
        \o "\">Q</Content><Content>Hello </Content><Content>World</Content></Story>"

XmlFragments ==
    {"<Story>" \o t \o "</Story>" : t \in Concats(XmlPieces, MaxElems)}
        \cup {PaddedFragment}

XmlQueries ==
    { [find |-> "Hello World", replace |-> "Hi"],
      [find |-> "Hello World", replace |-> "A&B"],
      [find |-> "world",       replace |-> "Hi"] }

(***************************************************************************)
(* processReplacements: the walker.                                        *)
(***************************************************************************)
\* a read that always takes the original container entry
currentContentOriginal(modified, zip, storyPath) == zip[storyPath]

\* the fragment a visit works on: the Edited Unit when there is one
currentContent(modified, zip, storyPath) ==
    IF storyPath \in DOMAIN modified THEN modified[storyPath] ELSE zip[storyPath]

\* a walk over the unit list from its end
storyAtReversed(files, i) == files[Len(files) - i + 1]

\* the unit visited at position i of the inner loop
storyAt(files, i) == files[i]

\* acceptance on the count alone, without the validation parse
editAcceptedUnchecked(count, newXml) == count > 0

\* count > 0 and the validation parse reports no parsererror
editAccepted(count, newXml) == count > 0 /\ wellFormed(newXml)

\* a loop position that never leaves the inner loop early
positionAfterNoBreak(replaceAll, accepted, r, u) == [rule |-> r, unit |-> u + 1]

\* loop position after a visit: break on an accepted first-occurrence edit,
\* otherwise the next unit
positionAfter(replaceAll, accepted, r, u) ==
    IF ~replaceAll /\ accepted
    THEN [rule |-> r + 1, unit |-> 1]
    ELSE [rule |-> r, unit |-> u + 1]

\* if (!replacement.find || !replacement.replace) continue;
ruleSkipped(rule) == rule.find = "" \/ rule.replace = ""

Walking == pc = "walk" /\ ruleIndex <= Len(replacements)

\* the rule is skipped without visiting any unit
SkipRule ==
    /\ Walking
    /\ ruleSkipped(replacements[ruleIndex])
    /\ ruleIndex' = ruleIndex + 1
    /\ unitIndex' = 1
    /\ walkFiles' = storyFiles
    /\ UNCHANGED << idmlZip, storyFiles, modifiedFiles, replacements, xmlContent,
                    totalReplacements, replacementLog, outputZip, pc, visits,
                    uses, call, ret >>

\* the read at the head of a visit (modifiedFiles.get or await storyFile.async)
ReadUnit ==
    /\ Walking
    /\ ~ruleSkipped(replacements[ruleIndex])
    /\ unitIndex <= Len(walkFiles)
    /\ IF storyAt(walkFiles, unitIndex) \in DOMAIN idmlZip
       THEN /\ xmlContent' = currentContent(modifiedFiles, idmlZip,
                                            storyAt(walkFiles, unitIndex))
            /\ pc' = "apply"
            /\ unitIndex' = unitIndex
       ELSE /\ unitIndex' = unitIndex + 1         \* if (!storyFile) continue;
            /\ UNCHANGED << xmlContent, pc >>
    /\ UNCHANGED << idmlZip, storyFiles, walkFiles, modifiedFiles, replacements,
                    ruleIndex, totalReplacements, replacementLog, outputZip, visits,
                    uses, call, ret >>

\* a store that keeps every edit with a positive count, validated or not
storeEditUnvalidated(res, storyPath, rule, accepted) ==
    IF res.count > 0
    THEN /\ modifiedFiles' = (storyPath :> res.newXml) @@ modifiedFiles
         /\ totalReplacements' = totalReplacements + res.count
         /\ replacementLog' = Append(replacementLog,
                                     [file |-> storyPath,
                                      original |-> rule.find,
                                      replacement |-> rule.replace,
                                      count |-> res.count,
                                      method |-> res.matchType])
    ELSE UNCHANGED << modifiedFiles, totalReplacements, replacementLog >>

\* store and record an accepted edit, or leave everything as it is
storeEdit(res, storyPath, rule, accepted) ==
    IF accepted
    THEN /\ modifiedFiles' = (storyPath :> res.newXml) @@ modifiedFiles
         /\ totalReplacements' = totalReplacements + res.count
         /\ replacementLog' = Append(replacementLog,
                                     [file |-> storyPath,
                                      original |-> rule.find,
                                      replacement |-> rule.replace,
                                      count |-> res.count,
                                      method |-> res.matchType])
    ELSE UNCHANGED << modifiedFiles, totalReplacements, replacementLog >>

\* move the loops on after the visit; the loop of the next rule iterates
\* this.storyFiles as it is when that loop begins
advance(next) ==
    /\ ruleIndex' = next.rule
    /\ unitIndex' = next.unit
    /\ walkFiles' = IF next.rule = ruleIndex THEN walkFiles ELSE storyFiles
    /\ pc' = "walk"

finishVisit(res, replaceAll, storyPath, accepted) ==
    /\ storeEdit(res, storyPath, replacements[ruleIndex], accepted)
    /\ visits' = Append(visits, [rule |-> ruleIndex, unit |-> storyPath,
                                 read |-> xmlContent, result |-> res.newXml,
                                 count |-> res.count, accepted |-> accepted])
    /\ advance(positionAfter(replaceAll, accepted, ruleIndex, unitIndex))
    /\ UNCHANGED << idmlZip, storyFiles, replacements, xmlContent, outputZip,
                    uses, call, ret >>

\* substitute, validate, store and record: the rest of a visit
Apply(res, replaceAll) ==
    finishVisit(res, replaceAll, storyAt(walkFiles, unitIndex),
                editAccepted(res.count, res.newXml))

\* a visit in all-occurrences mode
ApplyAll ==
    /\ pc = "apply"
    /\ replacements[ruleIndex].replaceAll
    /\ Apply(performXMLTextReplacement(xmlContent, replacements[ruleIndex].find,
                                       replacements[ruleIndex].replace,
                                       DefaultOptions), TRUE)

\* a visit in first-occurrence mode
ApplyOnce ==
    /\ pc = "apply"
    /\ ~replacements[ruleIndex].replaceAll
    /\ Apply(performXMLTextReplacementOnce(xmlContent, replacements[ruleIndex].find,
                                           replacements[ruleIndex].replace,
                                           DefaultOptions), FALSE)

\* the inner loop ran out of units: next rule
EndOfUnits ==
    /\ Walking
    /\ ~ruleSkipped(replacements[ruleIndex])
    /\ unitIndex > Len(walkFiles)
    /\ ruleIndex' = ruleIndex + 1
    /\ unitIndex' = 1
    /\ walkFiles' = storyFiles
    /\ UNCHANGED << idmlZip, storyFiles, modifiedFiles, replacements, xmlContent,
                    totalReplacements, replacementLog, outputZip, pc, visits,
                    uses, call, ret >>

\* a copy loop that always takes the original entry
packagedContentOriginal(modified, zip, path) == zip[path]

\* the content packaged for one entry of the original archive
packagedContent(modified, zip, path) ==
    IF path \in DOMAIN modified THEN modified[path] ELSE zip[path]

\* createModifiedIDML: validate the edited units, then copy every entry of the
\* original archive, edited units with their latest fragment
createModifiedIDML ==
    /\ pc = "walk"
    /\ ruleIndex > Len(replacements)
    /\ IF \A path \in DOMAIN modifiedFiles : wellFormed(modifiedFiles[path])
       THEN /\ outputZip' = [path \in DOMAIN idmlZip |->
                                packagedContent(modifiedFiles, idmlZip, path)]
            /\ pc' = "done"
       ELSE /\ pc' = "failed"
            /\ UNCHANGED outputZip
    /\ UNCHANGED << idmlZip, storyFiles, walkFiles, modifiedFiles, replacements,
                    ruleIndex, unitIndex, xmlContent, totalReplacements,
                    replacementLog, visits, uses, call, ret >>

NoCall == [fn |-> "none"]

Init ==
    /\ idmlZip \in {stories @@ OtherEntries :
                        stories \in [{StoryPath(i) : i \in 1..NumUnits} -> UnitFragments]}
    /\ storyFiles = [i \in 1..NumUnits |-> StoryPath(i)]
    /\ walkFiles = storyFiles
    /\ modifiedFiles = << >>
    /\ replacements \in RuleSets
    /\ ruleIndex = 1
    /\ unitIndex = 1
    /\ xmlContent = ""
    /\ totalReplacements = 0
    /\ replacementLog = << >>
    /\ outputZip = << >>
    /\ pc = "walk"
    /\ visits = << >>
    /\ uses = [loads |-> 1, runs |-> 1]
    /\ call = NoCall
    /\ ret = NoCall

Next ==
    \/ SkipRule
    \/ ReadUnit
    \/ ApplyAll
    \/ ApplyOnce
    \/ EndOfUnits
    \/ createModifiedIDML

Spec == Init /\ [][Next]_vars

(***************************************************************************)
(* One processor over its lifetime: containers loaded one after another,   *)
(* several runs, reads that fail (specification SpecProcessor).            *)
(***************************************************************************)
MaxRuns == 2

MaxLoads == 2

\* a fragment whose text holds two dollar signs in a row
DollarFragment ==
    "<Story><CharacterStyleRange><Content>US$$5</Content></CharacterStyleRange></Story>"

\* Containers without designmap.xml: loadIDML takes the scan-and-sort path.
Containers ==
    { (StoryPath(1) :> "<Story><Content>A</Content></Story>")
          @@ (StoryPath(2) :> DollarFragment) @@ OtherEntries,
      (StoryPath(1) :> "<Story><Content>A B</Content></Story>") @@ OtherEntries }

ProcessorRules ==
    { [find |-> "A",    replace |-> "B",     replaceAll |-> TRUE],
      [find |-> "US$5", replace |-> "USD 5", replaceAll |-> TRUE],
      [find |-> "A",    replace |-> "B",     replaceAll |-> FALSE],
      [find |-> "A",    replace |-> "",      replaceAll |-> FALSE] }

ProcessorRuleSets == UNION { [1..n -> ProcessorRules] : n \in 1..MaxRules }

\* the entries under Stories/ ending in .xml, sorted by file name (the names
\* of the model differ in their digit only)
RECURSIVE sortedStories(_, _)
sortedStories(zip, i) ==
    IF i >= Len(DigitAlphabet) THEN << >>
    ELSE (IF StoryPath(i) \in DOMAIN zip THEN << StoryPath(i) >> ELSE << >>)
             \o sortedStories(zip, i + 1)

\* selfAttr.startsWith('Stories/') && selfAttr.endsWith('.xml')
isStoryPath(path) ==
    /\ StartsWithAt(path, 0, "Stories/")
    /\ Len(path) >= Len(".xml")
    /\ SliceFrom(path, Len(path) - Len(".xml")) = ".xml"

\* the Self attributes of the StoryRef elements of designmap.xml, in document
\* order (elements written as <StoryRef Self="..."/>)
RECURSIVE storyRefs(_, _)
storyRefsAt(dmText, p, q) ==
    IF q = -1 THEN << >>
    ELSE << Slice(dmText, p, q) >> \o storyRefs(dmText, q + 1)

storyRefsOpen(dmText, p) ==
    IF p = -1 THEN << >>
    ELSE storyRefsAt(dmText, p + Len("<StoryRef Self=\""),
                     IndexOf(dmText, "\"", p + Len("<StoryRef Self=\"")))

storyRefs(dmText, from) ==
    storyRefsOpen(dmText, IndexOf(dmText, "<StoryRef Self=\"", from))

\* the references pushed into this.storyFiles: story paths that name an entry
listedStories(zip, refs) ==
    SelectSeq(refs, LAMBDA r : isStoryPath(r) /\ r \in DOMAIN zip)

\* if (this.storyFiles.length === 0) scan the entries and sort
storyFilesFrom(zip, listed) ==
    IF Len(listed) = 0 THEN sortedStories(zip, 1) ELSE listed

\* this.storyFiles after loadIDML: the order of designmap.xml when it is
\* present and lists a story, else the sorted scan
storyFilesOf(zip) ==
    storyFilesFrom(zip, IF "designmap.xml" \in DOMAIN zip
                        THEN listedStories(zip, storyRefs(zip["designmap.xml"], 0))
                        ELSE << >>)

\* loadIDML: replaces the archive and the unit list and nothing else. It runs
\* between two runs, or while a run is suspended in await storyFile.async.
loadIDML ==
    /\ uses.loads < MaxLoads
    /\ \/ pc \in {"done", "failed"}
       \/ pc = "apply" /\ storyAt(walkFiles, unitIndex) \notin DOMAIN modifiedFiles
    /\ \E zip \in Containers :
          /\ idmlZip' = zip
          /\ storyFiles' = storyFilesOf(zip)
    /\ uses' = [uses EXCEPT !.loads = @ + 1]
    /\ UNCHANGED << walkFiles, modifiedFiles, replacements, ruleIndex, unitIndex,
                    xmlContent, totalReplacements, replacementLog, outputZip, pc,
                    visits, call, ret >>

\* the head of processReplacements: a fresh total and a fresh log; the
\* processor's fields are taken as they are
processReplacements ==
    /\ uses.runs < MaxRuns
    /\ pc \in {"done", "failed"}
    /\ replacements' \in ProcessorRuleSets
    /\ ruleIndex' = 1
    /\ unitIndex' = 1
    /\ walkFiles' = storyFiles
    /\ totalReplacements' = 0
    /\ replacementLog' = << >>
    /\ visits' = << >>
    /\ pc' = "walk"
    /\ uses' = [uses EXCEPT !.runs = @ + 1]
    /\ UNCHANGED << idmlZip, storyFiles, modifiedFiles, xmlContent, outputZip,
                    call, ret >>

\* await storyFile.async('text') rejects: the catch block rethrows
ReadUnitFails ==
    /\ Walking
    /\ ~ruleSkipped(replacements[ruleIndex])
    /\ unitIndex <= Len(walkFiles)
    /\ storyAt(walkFiles, unitIndex) \in DOMAIN idmlZip
    /\ storyAt(walkFiles, unitIndex) \notin DOMAIN modifiedFiles
    /\ pc' = "failed"
    /\ UNCHANGED << idmlZip, storyFiles, walkFiles, modifiedFiles, replacements,
                    ruleIndex, unitIndex, xmlContent, totalReplacements,
                    replacementLog, outputZip, visits, uses, call, ret >>

InitProcessor ==
    /\ idmlZip \in Containers
    /\ storyFiles = storyFilesOf(idmlZip)
    /\ walkFiles = storyFiles
    /\ modifiedFiles = << >>
    /\ replacements \in ProcessorRuleSets
    /\ ruleIndex = 1
    /\ unitIndex = 1
    /\ xmlContent = ""
    /\ totalReplacements = 0
    /\ replacementLog = << >>
    /\ outputZip = << >>
    /\ pc = "walk"
    /\ visits = << >>
    /\ uses = [loads |-> 1, runs |-> 1]
    /\ call = NoCall
    /\ ret = NoCall

NextProcessor ==
    \/ SkipRule
    \/ ReadUnit
    \/ ReadUnitFails
    \/ ApplyAll
    \/ ApplyOnce
    \/ EndOfUnits
    \/ createModifiedIDML
    \/ loadIDML
    \/ processReplacements

SpecProcessor == InitProcessor /\ [][NextProcessor]_vars

(***************************************************************************)
(* Direct calls of the substitution functions on drawn arguments.          *)
(***************************************************************************)
BlockCalls ==
    { [fn |-> "_normalizedReplace", text |-> t, find |-> q.find,
       replace |-> q.replace, opts |-> o, firstOnly |-> f] :
        t \in BlockTexts, q \in BlockQueries, o \in AllOptions, f \in BOOLEAN }

UnitCalls ==
    { [fn |-> n, text |-> t, find |-> q.find, replace |-> q.replace, opts |-> o,
       firstOnly |-> (n = "performXMLTextReplacementOnce")] :
        n \in {"performXMLTextReplacement", "performXMLTextReplacementOnce"},
        t \in XmlFragments, q \in XmlQueries, o \in AllOptions }

CrossCalls ==
    { [fn |-> "_replaceAcrossContentBlocks", text |-> t, find |-> q.find,
       replace |-> q.replace, opts |-> o, firstOnly |-> f] :
        t \in XmlFragments, q \in XmlQueries, o \in AllOptions, f \in BOOLEAN }

Pending(fn) == call.fn = fn /\ ret = NoCall

normalizedReplaceCall ==
    /\ Pending("_normalizedReplace")
    /\ ret' = _normalizedReplace(call.text, call.find, call.replace, call.opts,
                                 call.firstOnly)
    /\ UNCHANGED << walkerVars, call >>

performXMLTextReplacementCall ==
    /\ Pending("performXMLTextReplacement")
    /\ ret' = performXMLTextReplacement(call.text, call.find, call.replace, call.opts)
    /\ UNCHANGED << walkerVars, call >>

performXMLTextReplacementOnceCall ==
    /\ Pending("performXMLTextReplacementOnce")
    /\ ret' = performXMLTextReplacementOnce(call.text, call.find, call.replace,
                                            call.opts)
    /\ UNCHANGED << walkerVars, call >>

replaceAcrossContentBlocksCall ==
    /\ Pending("_replaceAcrossContentBlocks")
    /\ ret' = _replaceAcrossContentBlocks(call.text, call.find, call.replace,
                                          call.opts, call.firstOnly)
    /\ UNCHANGED << walkerVars, call >>

InitCalls ==
    /\ idmlZip = << >>
    /\ storyFiles = << >>
    /\ walkFiles = << >>
    /\ modifiedFiles = << >>
    /\ replacements = << >>
    /\ ruleIndex = 1
    /\ unitIndex = 1
    /\ xmlContent = ""
    /\ totalReplacements = 0
    /\ replacementLog = << >>
    /\ outputZip = << >>
    /\ pc = "idle"
    /\ visits = << >>
    /\ uses = [loads |-> 0, runs |-> 0]
    /\ call \in BlockCalls \cup UnitCalls \cup CrossCalls
    /\ ret = NoCall

NextCalls ==
    \/ normalizedReplaceCall
    \/ performXMLTextReplacementCall
    \/ performXMLTextReplacementOnceCall
    \/ replaceAcrossContentBlocksCall

SpecCalls == InitCalls /\ [][NextCalls]_vars

(***************************************************************************)
(* Translator: the glossary and the Rule Set built from it.                *)
(***************************************************************************)
availableLangs ==
    {"en", "fr", "de", "es", "it", "pt", "nl", "sv", "da", "fi", "no", "pl", "ru",
     "ja", "zh", "ar", "he"}

\* header.map(h => h.trim()) and the codes h.toLowerCase()
lowerHeader(header) == [i \in DOMAIN header |-> ToLowerCase(Trim(header[i]))]

\* 1-based column of a name, -1 when absent
columnOf(lower, name) == FirstOf({i \in DOMAIN lower : lower[i] = name})

\* the source column: 'source', else the hinted language, else the first
srcColIdxOf(lower, srcLangHint) ==
    IF columnOf(lower, "source") # -1 THEN columnOf(lower, "source")
    ELSE IF srcLangHint # "auto" /\ columnOf(lower, ToLowerCase(srcLangHint)) # -1
         THEN columnOf(lower, ToLowerCase(srcLangHint))
         ELSE 1

langColsOf(lower, srcColIdx) ==
    {i \in DOMAIN lower : i # srcColIdx /\ lower[i] \in availableLangs}

\* the value a row gives to language code l, "" when it gives none: a
\* non-empty cell of a language column, else the source text under the code
\* of the source column
rowValue(lower, cols, srcColIdx, l) ==
    IF \E i \in langColsOf(lower, srcColIdx) : lower[i] = l /\ Trim(cols[i]) # ""
    THEN Trim(cols[CHOOSE i \in langColsOf(lower, srcColIdx) :
                      lower[i] = l /\ Trim(cols[i]) # ""])
    ELSE IF lower[srcColIdx] = l THEN Trim(cols[srcColIdx]) ELSE ""

\* the glossary entry of a key after a row: glossary[key][code] = value
entryAfterRow(lower, cols, srcColIdx, old) ==
    [l \in DOMAIN old \cup {c \in availableLangs :
                               rowValue(lower, cols, srcColIdx, c) # ""} |->
        IF rowValue(lower, cols, srcColIdx, l) # ""
        THEN rowValue(lower, cols, srcColIdx, l)
        ELSE old[l]]

\* position of a key among the glossary's own keys (insertion order), -1
keyIndex(glossary, key) ==
    FirstOf({i \in 1..Len(glossary) : glossary[i].key = key})

putRow(glossary, lower, cols, srcColIdx, key, at) ==
    IF at = -1
    THEN Append(glossary,
                [key |-> key, entry |-> entryAfterRow(lower, cols, srcColIdx, << >>)])
    ELSE [glossary EXCEPT ![at].entry = entryAfterRow(lower, cols, srcColIdx, @)]

RECURSIVE ingestRows(_, _, _, _, _)
ingestRows(lower, rows, srcColIdx, r, glossary) ==
    IF r > Len(rows) THEN glossary
    ELSE IF Trim(rows[r][srcColIdx]) = ""
         THEN ingestRows(lower, rows, srcColIdx, r + 1, glossary)
         ELSE ingestRows(lower, rows, srcColIdx, r + 1,
                         putRow(glossary, lower, rows[r], srcColIdx,
                                ToLowerCase(Trim(rows[r][srcColIdx])),
                                keyIndex(glossary,
                                         ToLowerCase(Trim(rows[r][srcColIdx])))))

\* _ingestTable: the glossary as the sequence of its keys, in insertion
\* order, each with its entry (language code -> text)
_ingestTable(header, rows, srcLangHint) ==
    ingestRows(lowerHeader(header), rows,
               srcColIdxOf(lowerHeader(header), srcLangHint), 1, << >>)

\* entry[lang], "" when undefined
entryValue(entry, lang) == IF lang \in DOMAIN entry THEN entry[lang] ELSE ""

\* keys.sort((a,b) => b.length - a.length): a stable sort, longest key first
insertPos(sorted, item) ==
    FirstOf({p \in 1..Len(sorted) : Len(sorted[p].key) < Len(item.key)})

insertAt(sorted, item, p) ==
    IF p = -1 THEN Append(sorted, item)
    ELSE SubSeq(sorted, 1, p - 1) \o << item >> \o SubSeq(sorted, p, Len(sorted))

RECURSIVE sortKeys(_, _, _)
sortKeys(glossary, i, sorted) ==
    IF i > Len(glossary) THEN sorted
    ELSE sortKeys(glossary, i + 1,
                  insertAt(sorted, glossary[i], insertPos(sorted, glossary[i])))

\* the loop over the sorted keys: skip entries without a target text; the
\* find text is entry[srcLang] || key
RECURSIVE replacementsOf(_, _, _, _, _)
replacementsOf(keys, i, targetLang, srcLang, out) ==
    IF i > Len(keys) THEN out
    ELSE IF entryValue(keys[i].entry, targetLang) = ""
         THEN replacementsOf(keys, i + 1, targetLang, srcLang, out)
         ELSE replacementsOf(keys, i + 1, targetLang, srcLang,
                  Append(out,
                         [find |-> IF entryValue(keys[i].entry, srcLang) # ""
                                   THEN entryValue(keys[i].entry, srcLang)
                                   ELSE keys[i].key,
                          replace |-> entryValue(keys[i].entry, targetLang)]))

buildReplacementsFor(glossary, targetLang, srcLang) ==
    replacementsOf(sortKeys(glossary, 1, << >>), 1, targetLang, srcLang, << >>)

(***************************************************************************)
(* PDFProcessor.performTextReplacement: substitution in the text of a line.*)
(***************************************************************************)
\* the assertion \b at offset p of s: exactly one of the two neighbouring
\* characters is a word character
wordBoundaryAt(s, p) ==
    (p > 0 /\ isWordChar(CharAt(s, p - 1))) # (p < Len(s) /\ isWordChar(CharAt(s, p)))

\* the escaped (literal) term, between two \b when bounded, matches at p;
\* ignoreCase is the i flag
regexMatchesAt(s, term, p, ignoreCase, bounded) ==
    /\ p + Len(term) <= Len(s)
    /\ IF ignoreCase
       THEN ToLowerCase(Slice(s, p, p + Len(term))) = ToLowerCase(term)
       ELSE Slice(s, p, p + Len(term)) = term
    /\ bounded => wordBoundaryAt(s, p) /\ wordBoundaryAt(s, p + Len(term))

\* offset of the first match at or after pos, -1 when there is none
regexExec(s, term, pos, ignoreCase, bounded) ==
    FirstOf({p \in pos..Len(s) : regexMatchesAt(s, term, p, ignoreCase, bounded)})

\* s.match(regex) with the g flag: the number of matches, scanned from the
\* left, each search starting where the previous match ended
RECURSIVE regexCount(_, _, _, _, _)
regexCountAt(s, term, p, ignoreCase, bounded) ==
    IF p = -1 THEN 0
    ELSE 1 + regexCount(s, term, p + Len(term), ignoreCase, bounded)

regexCount(s, term, pos, ignoreCase, bounded) ==
    regexCountAt(s, term, regexExec(s, term, pos, ignoreCase, bounded),
                 ignoreCase, bounded)

\* s.replace(regex, replacement): every match (g flag) or the first one is
\* replaced by the expansion of the replacement pattern
RECURSIVE regexReplace(_, _, _, _, _, _, _)
regexReplaceAt(s, term, pos, p, ignoreCase, bounded, replacement, global) ==
    IF p = -1 THEN SliceFrom(s, pos)
    ELSE Slice(s, pos, p)
             \o getSubstitution(Slice(s, p, p + Len(term)), s, p, replacement, 0)
             \o (IF global
                 THEN regexReplace(s, term, p + Len(term), ignoreCase, bounded,
                                   replacement, global)
                 ELSE SliceFrom(s, p + Len(term)))

regexReplace(s, term, pos, ignoreCase, bounded, replacement, global) ==
    regexReplaceAt(s, term, pos, regexExec(s, term, pos, ignoreCase, bounded),
                   ignoreCase, bounded, replacement, global)

\* the result record for a count and the text that goes with it
textResult(text, count, replaced) ==
    [found |-> count > 0, newText |-> IF count > 0 THEN replaced ELSE text,
     count |-> count]

\* the two regex branches with options.replaceAll: count on targetText,
\* replace on text
replaceAllByRegex(text, targetText, term, replaceText, options, bounded) ==
    textResult(text,
               regexCount(targetText, term, 0, ~options.caseSensitive, bounded),
               regexReplace(text, term, 0, ~options.caseSensitive, bounded,
                            replaceText, TRUE))

\* whole words, first occurrence: firstRegex.test(targetText), then replace
firstByRegex(text, targetText, term, replaceText, options) ==
    textResult(text,
               IF regexExec(targetText, term, 0, ~options.caseSensitive, TRUE) # -1
               THEN 1 ELSE 0,
               regexReplace(text, term, 0, ~options.caseSensitive, TRUE,
                            replaceText, FALSE))

\* first occurrence without whole words: indexOf and two slices
firstByIndex(text, replaceText, idx, length) ==
    textResult(text, IF idx # -1 THEN 1 ELSE 0,
               Slice(text, 0, idx) \o replaceText \o SliceFrom(text, idx + length))

performTextReplacementOn(text, targetText, findText, searchText, replaceText, options) ==
    IF options.wholeWords
    THEN IF options.replaceAll
         THEN replaceAllByRegex(text, targetText, searchText, replaceText, options, TRUE)
         ELSE firstByRegex(text, targetText, searchText, replaceText, options)
    ELSE IF options.replaceAll
         THEN replaceAllByRegex(text, targetText, findText, replaceText, options, FALSE)
         ELSE IF ~options.caseSensitive
              THEN firstByIndex(text, replaceText, IndexOf(targetText, searchText, 0),
                                Len(searchText))
              ELSE firstByIndex(text, replaceText, IndexOf(text, findText, 0),
                                Len(findText))

performTextReplacement(text, findText, replaceText, options) ==
    IF options.caseSensitive
    THEN performTextReplacementOn(text, text, findText, findText, replaceText, options)
    ELSE performTextReplacementOn(text, ToLowerCase(text), findText,
                                  ToLowerCase(findText), replaceText, options)

(***************************************************************************)
(* Direct calls of the glossary and flat-text functions (SpecText).        *)
(***************************************************************************)
MaxRows == 2

GlossaryHeaders == { << "source", "en", "fr" >>, << "en", "fr" >> }

GlossaryCells == {"ab", "Hello", ""}

\* tables of at most MaxRows rows under one of the headers
GlossaryTables ==
    UNION { { [header |-> h, rows |-> rows] :
                rows \in UNION { [1..n -> [1..Len(h) -> GlossaryCells]] :
                                   n \in 1..MaxRows } } :
            h \in GlossaryHeaders }

GlossaryCalls ==
    { [fn |-> "buildReplacementsFor", header |-> t.header, rows |-> t.rows,
       srcLangHint |-> "auto", targetLang |-> "fr", srcLang |-> src] :
        t \in GlossaryTables, src \in {"auto", "en"} }

\* plain line texts
FlatTexts == {"a cat ran", "Cat scatter cat", "a  b", "Tom & Jerry", "cats"}

FlatQueries ==
    { [find |-> "cat",  replace |-> "dog"],
      [find |-> "a b",  replace |-> "X"],
      [find |-> " cat", replace |-> "X"],
      [find |-> "&",    replace |-> "and"],
      [find |-> "cat",  replace |-> "$&s"] }

FlatOptions == [caseSensitive : BOOLEAN, wholeWords : BOOLEAN, replaceAll : BOOLEAN]

FlatCalls ==
    { [fn |-> "performTextReplacement", text |-> t, find |-> q.find,
       replace |-> q.replace, opts |-> o] :
        t \in FlatTexts, q \in FlatQueries, o \in FlatOptions }

buildReplacementsForCall ==
    /\ Pending("buildReplacementsFor")
    /\ ret' = [replacements |->
                  buildReplacementsFor(_ingestTable(call.header, call.rows,
                                                    call.srcLangHint),
                                       call.targetLang, call.srcLang)]
    /\ UNCHANGED << walkerVars, call >>

performTextReplacementCall ==
    /\ Pending("performTextReplacement")
    /\ ret' = performTextReplacement(call.text, call.find, call.replace, call.opts)
    /\ UNCHANGED << walkerVars, call >>

InitText ==
    /\ idmlZip = << >>
    /\ storyFiles = << >>
    /\ walkFiles = << >>
    /\ modifiedFiles = << >>
    /\ replacements = << >>
    /\ ruleIndex = 1
    /\ unitIndex = 1
    /\ xmlContent = ""
    /\ totalReplacements = 0
    /\ replacementLog = << >>
    /\ outputZip = << >>
    /\ pc = "idle"
    /\ visits = << >>
    /\ uses = [loads |-> 0, runs |-> 0]
    /\ call \in GlossaryCalls \cup FlatCalls
    /\ ret = NoCall

NextText ==
    \/ buildReplacementsForCall
    \/ performTextReplacementCall

SpecText == InitText /\ [][NextText]_vars

(***************************************************************************)
(* Properties of the walker (specification Spec).                          *)
(***************************************************************************)
\* position of a unit in the unit list
UnitPos(path) == CHOOSE i \in 1..Len(storyFiles) : storyFiles[i] = path

\* the fragment of a unit after the first k visits: the result of its last
\* accepted visit, the original container entry when there is none
RECURSIVE LatestEdit(_, _)
LatestEdit(k, path) ==
    IF k = 0 THEN idmlZip[path]
    ELSE IF visits[k].unit = path /\ visits[k].accepted THEN visits[k].result
    ELSE LatestEdit(k - 1, path)

\* what the substitution of a rule makes of a fragment
RuleOutcome(rule, fragment) ==
    IF rule.replaceAll
    THEN performXMLTextReplacement(fragment, rule.find, rule.replace, DefaultOptions)
    ELSE performXMLTextReplacementOnce(fragment, rule.find, rule.replace,
                                       DefaultOptions)

AcceptedVisits == SelectSeq(visits, LAMBDA v : v.accepted)

\* a step that completes a visit
VisitCompletes == Len(visits') = Len(visits) + 1

LastVisit(vs) == vs[Len(vs)]

\* C2 (post-edit validation): a visit whose substitution reports a count but
\* yields a fragment that is not well-formed leaves modifiedFiles, the total
\* and the log as they were and moves on to the next unit of the same rule;
\* every stored fragment is well-formed and the run never fails in packaging.
C2_Discarded ==
    VisitCompletes /\ LastVisit(visits').count > 0
                   /\ ~wellFormed(LastVisit(visits').result)
    => /\ UNCHANGED << modifiedFiles, totalReplacements, replacementLog >>
       /\ pc' = "walk"
       /\ ruleIndex' = ruleIndex
       /\ unitIndex' = unitIndex + 1

C2_StoredWellFormed ==
    /\ \A path \in DOMAIN modifiedFiles : wellFormed(modifiedFiles[path])
    /\ pc # "failed"

C2_PostEditValidation == [][C2_Discarded]_vars /\ []C2_StoredWellFormed

\* a finished run in which an edit with a positive count was not well-formed
C2_Witness ==
    /\ pc = "done"
    /\ \E k \in 1..Len(visits) :
          /\ visits[k].count > 0
          /\ ~wellFormed(visits[k].result)
          /\ ~visits[k].accepted
          /\ k < Len(visits)

\* C4 (cumulative edits): every visit reads the result of the last accepted
\* visit to the same unit (the original entry only when there is none), its
\* result is the rule's substitution applied to what it read (stated for the
\* visit completed last, which every visit once is), the Edited-Unit
\* entry of a unit is the result of its last accepted visit, and the packaged
\* archive holds exactly these fragments.
C4_CumulativeEdits ==
    /\ \A k \in 1..Len(visits) :
          visits[k].read = LatestEdit(k - 1, visits[k].unit)
    /\ visits # << >> =>
          LastVisit(visits).result
              = RuleOutcome(replacements[LastVisit(visits).rule],
                            LastVisit(visits).read).newXml
    /\ \A path \in DOMAIN idmlZip :
          /\ path \in DOMAIN modifiedFiles
                <=> \E k \in 1..Len(visits) : visits[k].unit = path /\ visits[k].accepted
          /\ path \in DOMAIN modifiedFiles
                => modifiedFiles[path] = LatestEdit(Len(visits), path)
    /\ pc = "apply" => xmlContent = LatestEdit(Len(visits), storyFiles[unitIndex])
    /\ pc = "done" =>
          \A path \in DOMAIN idmlZip : outputZip[path] = LatestEdit(Len(visits), path)

\* rules [A->B, B->C] in all-occurrences mode turn the text A into C
C4_Witness ==
    /\ pc = "done"
    /\ replacements = << [find |-> "A", replace |-> "B", replaceAll |-> TRUE],
                         [find |-> "B", replace |-> "C", replaceAll |-> TRUE] >>
    /\ \E path \in DOMAIN idmlZip :
          /\ idmlZip[path] = "<Story><Content>A</Content></Story>"
          /\ outputZip[path] = "<Story><Content>C</Content></Story>"
          /\ \E j, k \in 1..Len(visits) :
                /\ j < k
                /\ visits[j].unit = path /\ visits[j].accepted
                /\ visits[k].unit = path /\ visits[k].accepted
                /\ visits[k].read = visits[j].result

\* C5 (first-occurrence mode stops early): the accepted visit of a
\* first-occurrence rule has count 1, appends one record with count 1 for its
\* unit, adds 1 to the total, changes the Edited-Unit entry of that unit only
\* and ends the rule; the units of the rule are tried in walk order and none
\* is visited after the accepted one.
C5_AcceptedStep ==
    VisitCompletes /\ ~replacements[ruleIndex].replaceAll
                   /\ LastVisit(visits').accepted
    => /\ LastVisit(visits').count = 1
       /\ Len(replacementLog') = Len(replacementLog) + 1
       /\ LastVisit(replacementLog').count = 1
       /\ LastVisit(replacementLog').file = LastVisit(visits').unit
       /\ totalReplacements' = totalReplacements + 1
       /\ \A path \in DOMAIN modifiedFiles :
             path # LastVisit(visits').unit
                => path \in DOMAIN modifiedFiles'
                      /\ modifiedFiles'[path] = modifiedFiles[path]
       /\ DOMAIN modifiedFiles' = DOMAIN modifiedFiles \cup {LastVisit(visits').unit}
       /\ ruleIndex' = ruleIndex + 1
       /\ unitIndex' = 1

C5_OneUnitPerRule ==
    \A r \in 1..Len(replacements) :
        ~replacements[r].replaceAll =>
            /\ Cardinality({k \in 1..Len(visits) :
                               visits[k].rule = r /\ visits[k].accepted}) <= 1
            /\ \A j, k \in 1..Len(visits) :
                  j < k /\ visits[j].rule = r /\ visits[k].rule = r
                     => /\ ~visits[j].accepted
                        /\ UnitPos(visits[j].unit) < UnitPos(visits[k].unit)

C5_FirstOccurrenceStops == [][C5_AcceptedStep]_vars /\ []C5_OneUnitPerRule

\* a first-occurrence rule that finds its query in both units edits the first
\* and leaves the second as it was
C5_Witness ==
    /\ pc = "done"
    /\ replacements = << [find |-> "A", replace |-> "B", replaceAll |-> FALSE] >>
    /\ \A i \in 1..Len(storyFiles) :
          idmlZip[storyFiles[i]] = "<Story><Content>A</Content></Story>"
    /\ Len(visits) = 1
    /\ visits[1].accepted
    /\ DOMAIN modifiedFiles = {storyFiles[1]}
    /\ Len(replacementLog) = 1
    /\ totalReplacements = 1
    /\ outputZip[storyFiles[2]] = idmlZip[storyFiles[2]]

\* C6 (sequential rule-over-units ordering): the completed visits are in
\* strictly increasing (rule, unit position) order, the units of one rule are
\* taken one after the other from the head of the unit list, a visit in
\* progress comes after every completed one, and the log holds the accepted
\* visits in that same order.
C6_SequentialOrder ==
    /\ \A k \in 1..Len(visits) :
          IF k > 1 /\ visits[k - 1].rule = visits[k].rule
          THEN UnitPos(visits[k].unit) = UnitPos(visits[k - 1].unit) + 1
          ELSE /\ UnitPos(visits[k].unit) = 1
               /\ k > 1 => visits[k - 1].rule < visits[k].rule
    /\ pc = "apply" /\ visits # << >> =>
          \/ LastVisit(visits).rule < ruleIndex
          \/ /\ LastVisit(visits).rule = ruleIndex
             /\ UnitPos(LastVisit(visits).unit) < unitIndex
    /\ Len(replacementLog) = Len(AcceptedVisits)
    /\ \A i \in 1..Len(replacementLog) :
          /\ replacementLog[i].file = AcceptedVisits[i].unit
          /\ replacementLog[i].original = replacements[AcceptedVisits[i].rule].find
          /\ replacementLog[i].replacement = replacements[AcceptedVisits[i].rule].replace
          /\ replacementLog[i].count = AcceptedVisits[i].count

\* two rules over two units: four visits, the records of both rules in order
C6_Witness ==
    /\ pc = "done"
    /\ Len(visits) = 4
    /\ visits[2].rule = 1 /\ visits[3].rule = 2
    /\ Len(replacementLog) >= 3
    /\ replacementLog[1].original # replacementLog[Len(replacementLog)].original

(***************************************************************************)
(* Properties of the substitution functions (specification SpecCalls).     *)
(***************************************************************************)
Returned(fn) == call.fn = fn /\ ret # NoCall

\* the result of a cross-block substitution, called directly or as fallback
CrossReturned ==
    \/ Returned("_replaceAcrossContentBlocks")
    \/ /\ \/ Returned("performXMLTextReplacement")
          \/ Returned("performXMLTextReplacementOnce")
       /\ ret.matchType = "cross-block"

WhitespaceOnly(s) == \A i \in 0..(Len(s) - 1) : IsSpace(CharAt(s, i))

\* blocks s..e (0-based) of a fragment are separated by whitespace only
BlockRun(xml, blocks, s, e) ==
    \A b \in s..(e - 1) :
        WhitespaceOnly(Slice(xml, blocks[b + 1].fullEnd, blocks[b + 2].fullStart))

\* C1 (cross-block safety gate): every match the cross-block substitution
\* applies spans blocks that are separated by whitespace only; a match with
\* any other tag between its blocks is skipped.
C1_GateSkipsForeignTags ==
    CrossReturned =>
        \A k \in 1..Len(ret.debugMatches) :
            BlockRun(call.text, collectBlocks(call.text, 0, << >>),
                     ret.debugMatches[k].startBlock, ret.debugMatches[k].endBlock)

\* offset p lies strictly inside a predefined entity of text
InsideEntity(text, p) ==
    \E i \in 0..(p - 1) : \E e \in 1..Len(Entities) :
        StartsWithAt(text, i, Entities[e].raw) /\ p < i + Len(Entities[e].raw)

\* the character at offset p belongs to a tag of text
InTag(text, p) ==
    \E i \in 0..p :
        /\ CharAt(text, i) = "<"
        /\ IndexOf(text, ">", i) # -1
        /\ p <= IndexOf(text, ">", i)

\* C3 (resolved-span alignment): no resolved range of a block starts or ends
\* inside a predefined entity, and none covers a character of a tag.
C3_SpanAlignment ==
    Returned("_normalizedReplace") =>
        \A k \in 1..Len(ret.debugMatches) :
            /\ ~InsideEntity(call.text, ret.debugMatches[k].origStart)
            /\ ~InsideEntity(call.text, ret.debugMatches[k].origEnd)
            /\ \A p \in ret.debugMatches[k].origStart..(ret.debugMatches[k].origEnd - 1) :
                  ~InTag(call.text, p)

\* the case-folded normalized haystack and query of a call
Folded(s, opts) == IF opts.caseSensitive THEN s ELSE ToLowerCase(s)

Haystack ==
    Folded(IF call.fn = "_normalizedReplace"
           THEN buildNormalized(unescapeWithMap(call.text).unescaped).norm
           ELSE buildNormalized(combineBlocks(collectBlocks(call.text, 0, << >>),
                                              0, "", << >>).combined).norm,
           call.opts)

Query == Folded(normFindOf(call.find), call.opts)

WordChars ==
    {CharAt(UpperAlphabet \o LowerAlphabet \o DigitAlphabet \o "_", i) : i \in 0..62}

\* offset i of the haystack is outside the text or holds no word character
BoundaryAt(src, i) == i < 0 \/ i >= Len(src) \/ CharAt(src, i) \notin WordChars

\* the offsets at which the query occurs as the options demand
ValidOccurrences(src, term, opts) ==
    {i \in 0..(Len(src) - Len(term)) :
        /\ SubSeq(src, i + 1, i + Len(term)) = term
        /\ opts.wholeWords => BoundaryAt(src, i - 1) /\ BoundaryAt(src, i + Len(term))}

\* C7 (matcher span discipline): in all-matches mode each span starts at or
\* after the end of the previous one; in first-only mode there is at most one
\* span, the leftmost valid occurrence.
C7_SpanDiscipline ==
    Returned("_normalizedReplace") \/ Returned("_replaceAcrossContentBlocks") =>
        /\ \A k \in 1..Len(ret.matches) :
              /\ ret.matches[k].start < ret.matches[k].end
              /\ k > 1 => ret.matches[k - 1].end <= ret.matches[k].start
        /\ call.firstOnly =>
              /\ Len(ret.matches) <= 1
              /\ \A k \in 1..Len(ret.matches) :
                    ret.matches[k].start
                        = FirstOf(ValidOccurrences(Haystack, Query, call.opts))

\* the block with the resolved range of its k-th recorded match replaced
SplicedAt(text, dm, inserted) ==
    Slice(text, 0, dm.origStart) \o inserted \o SliceFrom(text, dm.origEnd)

\* C8 (whole-word policy): with wholeWords the spans found are exactly the
\* occurrences of the query whose neighbouring characters are absent or not
\* in [A-Za-z0-9_] (the leftmost of them in first-only mode); each of them
\* is counted, a block without such an occurrence is returned as it is, and
\* a single one is replaced in place.
C8_WholeWordPolicy ==
    Returned("_normalizedReplace") /\ call.opts.wholeWords =>
        /\ {ret.matches[k].start : k \in 1..Len(ret.matches)}
              = IF call.firstOnly
                THEN {FirstOf(ValidOccurrences(Haystack, Query, call.opts))} \ {-1}
                ELSE ValidOccurrences(Haystack, Query, call.opts)
        /\ \A k \in 1..Len(ret.matches) :
              ret.matches[k].end = ret.matches[k].start + Len(Query)
        /\ ret.replacementCount = Len(ret.matches)
        /\ Len(ret.matches) = Cardinality({ret.matches[k].start : k \in 1..Len(ret.matches)})
        /\ ret.replacementCount = 0 => ret.newText = call.text
        /\ ret.replacementCount = 1 =>
              ret.newText = SplicedAt(call.text, ret.debugMatches[1], call.replace)
        /\ call.text = "concatenate cats" /\ call.find = "cat" =>
              ret.newText = "concatenate cats"
        /\ call.text = "a cat ran" /\ call.find = "cat" /\ call.replace = "dog" =>
              ret.newText = "a dog ran"

\* 'cat' -> 'dog' with wholeWords turns 'a cat ran' into 'a dog ran'
C8_Witness ==
    /\ Returned("_normalizedReplace")
    /\ call.opts.wholeWords
    /\ call.text = "a cat ran" /\ call.find = "cat" /\ call.replace = "dog"
    /\ ret.newText = "a dog ran"
    /\ ret.replacementCount = 1

\* the inner text of the one element a cross-block match was collapsed into
CollapsedInner(xml, newXml, blocks, dm) ==
    Slice(newXml, blocks[dm.startBlock + 1].fullStart + Len("<Content>"),
          Len(newXml) - (Len(xml) - blocks[dm.endBlock + 1].fullEnd)
              - Len("</Content>"))

\* C9 (escape-on-insert): where one match was replaced, the replacement text
\* stands in the result escaped, in the block path as in the cross-block path.
C9_EscapeOnInsert ==
    /\ Returned("_normalizedReplace") /\ ret.replacementCount = 1 =>
          ret.newText = SplicedAt(call.text, ret.debugMatches[1],
                                  _escapeForXML(call.replace))
    /\ CrossReturned /\ ret.count = 1 =>
          CollapsedInner(call.text, ret.newXml, collectBlocks(call.text, 0, << >>),
                         ret.debugMatches[1])
              = Slice(collectBlocks(call.text, 0, << >>)
                          [ret.debugMatches[1].startBlock + 1].inner,
                      0, ret.debugMatches[1].startInner)
                  \o _escapeForXML(call.replace)
                  \o SliceFrom(collectBlocks(call.text, 0, << >>)
                                   [ret.debugMatches[1].endBlock + 1].inner,
                               ret.debugMatches[1].endInner)

\* the blocks spanned by the leftmost occurrence of the query in the combined
\* text of a fragment; startBlock -1 when there is none
NoSpan == [startBlock |-> -1, endBlock |-> -1]

LeftmostSpan(blocks, c, normd, at) ==
    IF at = -1 \/ Len(Query) = 0 THEN NoSpan
    ELSE [startBlock |-> c.combinedMap[normd.map[at + 1] + 1].blockIndex,
          endBlock |-> c.combinedMap[normd.map[at + Len(Query)] + 1].blockIndex]

CrossSpanOf(blocks, c) ==
    LeftmostSpan(blocks, c, buildNormalized(c.combined),
                 FirstOf(ValidOccurrences(Haystack, Query, call.opts)))

QuerySpan ==
    IF collectBlocks(call.text, 0, << >>) = << >> THEN NoSpan
    ELSE CrossSpanOf(collectBlocks(call.text, 0, << >>),
                     combineBlocks(collectBlocks(call.text, 0, << >>), 0, "", << >>))

\* the query occurs in no single block of the fragment
InNoSingleBlock ==
    \A b \in 1..Len(collectBlocks(call.text, 0, << >>)) :
        _normalizedReplace(collectBlocks(call.text, 0, << >>)[b].inner, call.find,
                           call.replace, call.opts, TRUE).replacementCount = 0

\* newXml is xml with the elements of blocks s..e replaced by one element
Stitched(xml, newXml, blocks, s, e) ==
    /\ Len(newXml) >= blocks[s + 1].fullStart + (Len(xml) - blocks[e + 1].fullEnd)
    /\ Slice(newXml, 0, blocks[s + 1].fullStart) = Slice(xml, 0, blocks[s + 1].fullStart)
    /\ SliceFrom(newXml, Len(newXml) - (Len(xml) - blocks[e + 1].fullEnd))
          = SliceFrom(xml, blocks[e + 1].fullEnd)
    /\ collectBlocks(Slice(newXml, blocks[s + 1].fullStart,
                           Len(newXml) - (Len(xml) - blocks[e + 1].fullEnd)), 0, << >>)
          = << [inner |-> Slice(newXml, blocks[s + 1].fullStart + Len("<Content>"),
                                Len(newXml) - (Len(xml) - blocks[e + 1].fullEnd)
                                    - Len("</Content>")),
                innerStart |-> Len("<Content>"),
                innerEnd |-> Len(newXml) - (Len(xml) - blocks[e + 1].fullEnd)
                                 - blocks[s + 1].fullStart - Len("</Content>"),
                fullStart |-> 0,
                fullEnd |-> Len(newXml) - (Len(xml) - blocks[e + 1].fullEnd)
                                - blocks[s + 1].fullStart] >>

\* C10 (cross-block stitching): when the query occurs in no single block but
\* its leftmost occurrence in the combined text spans consecutive blocks that
\* are separated by whitespace only, performXMLTextReplacementOnce returns
\* count 1 and the fragment with exactly that run of elements replaced by one
\* <Content> element, the markup before and after it unchanged.
C10_Stitching ==
    /\ Returned("performXMLTextReplacementOnce")
    /\ InNoSingleBlock
    /\ QuerySpan.startBlock # -1
    /\ QuerySpan.endBlock # -1
    /\ QuerySpan.startBlock < QuerySpan.endBlock
    /\ BlockRun(call.text, collectBlocks(call.text, 0, << >>),
                QuerySpan.startBlock, QuerySpan.endBlock)
    => /\ ret.count = 1
       /\ Stitched(call.text, ret.newXml, collectBlocks(call.text, 0, << >>),
                   QuerySpan.startBlock, QuerySpan.endBlock)

(***************************************************************************)
(* Further properties of the walker (specification Spec).                  *)
(***************************************************************************)
HasInvalidRule ==
    \E r \in 1..Len(replacements) : ruleSkipped(replacements[r])

\* C14 (invalid rules rejected up front): a Rule Set holding a rule with an
\* empty find or an empty replace is rejected before any unit is read or
\* edited: such a run reads no unit, completes no visit and never ends in
\* success.
C14_RejectedUpFront ==
    HasInvalidRule => /\ visits = << >>
                      /\ pc \notin {"apply", "done"}

\* the Change Records of a rule: the log entries carrying its find and
\* replace texts
RecordsOf(rule) ==
    {i \in 1..Len(replacementLog) :
        /\ replacementLog[i].original = rule.find
        /\ replacementLog[i].replacement = rule.replace}

\* C16 (report completeness): the Change Record list of a completed run
\* accounts for every rule of the Rule Set: each rule has at least one
\* record, a rule without any occurrence one with zero applications.
C16_ReportComplete ==
    pc = "done" => \A r \in 1..Len(replacements) : RecordsOf(replacements[r]) # {}

\* the units with an accepted edit
AcceptedUnits == {visits[k].unit : k \in {j \in 1..Len(visits) : visits[j].accepted}}

\* the result of the last accepted visit of a unit
LastAccepted(path) ==
    visits[CHOOSE k \in 1..Len(visits) :
              /\ visits[k].unit = path /\ visits[k].accepted
              /\ \A j \in (k + 1)..Len(visits) :
                    ~(visits[j].unit = path /\ visits[j].accepted)].result

\* C17 (write-back frame): the archive built by createModifiedIDML has exactly
\* the paths of the original archive; an entry with an accepted edit carries
\* the latest accepted fragment, every other entry, text or binary, its
\* original content.
C17_WriteBackFrame ==
    pc = "done" =>
        /\ DOMAIN outputZip = DOMAIN idmlZip
        /\ DOMAIN modifiedFiles = AcceptedUnits
        /\ \A path \in DOMAIN idmlZip :
              outputZip[path] = IF path \in AcceptedUnits THEN LastAccepted(path)
                                ELSE idmlZip[path]

\* a finished run that edited the first story twice and left the second
\* story, the mimetype entry and the image as they were
C17_Witness ==
    /\ pc = "done"
    /\ Len(SelectSeq(visits, LAMBDA v : v.accepted /\ v.unit = storyFiles[1])) = 2
    /\ storyFiles[2] \notin AcceptedUnits
    /\ outputZip[storyFiles[1]] # idmlZip[storyFiles[1]]
    /\ outputZip[storyFiles[2]] = idmlZip[storyFiles[2]]
    /\ outputZip["mimetype"] = idmlZip["mimetype"]
    /\ outputZip["Resources/Images/img.png"] = "PNG-bytes"

(***************************************************************************)
(* Properties of the processor (specification SpecProcessor).              *)
(***************************************************************************)
\* the blocks of a fragment, decoded, joined and whitespace-collapsed, hold
\* the query (case folded as the default options demand)
Occurs(find, xml) ==
    ValidOccurrences(
        Folded(buildNormalized(combineBlocks(collectBlocks(xml, 0, << >>),
                                             0, "", << >>).combined).norm,
               DefaultOptions),
        Folded(normFindOf(find), DefaultOptions), DefaultOptions) # {}

\* the find text of the rule of visit k occurs in no entry of the archive and
\* in no fragment the rule has read up to that visit
OccursNowhere(k) ==
    /\ \A path \in DOMAIN idmlZip :
          ~Occurs(replacements[visits[k].rule].find, idmlZip[path])
    /\ \A j \in 1..k :
          visits[j].rule = visits[k].rule
              => ~Occurs(replacements[visits[k].rule].find, visits[j].read)

\* C11 (no-op rule): a rule whose find text matches in no block and in no
\* block concatenation of any unit has no accepted visit, so the Edited-Unit
\* set, the fragments, the total and the Change Record list stay as they were
\* before the rule, in first-occurrence and in all-occurrences mode.
C11_NoOpRule ==
    \A k \in 1..Len(visits) : OccursNowhere(k) => ~visits[k].accepted

\* C13 (no state survives across runs): a run starts with an empty
\* Edited-Unit set, so as long as the run has completed no visit the set holds
\* no fragment at all; what an earlier run or an earlier container left
\* behind is neither read nor packaged.
C13_FreshRun == visits = << >> => modifiedFiles = << >>

\* the unit the walk is about to visit has no entry in the archive
MissingEntry ==
    /\ Walking
    /\ ~ruleSkipped(replacements[ruleIndex])
    /\ unitIndex <= Len(walkFiles)
    /\ storyAt(walkFiles, unitIndex) \notin DOMAIN idmlZip

\* C15 (unreadable entries are fatal): when the unit the walk is about to
\* visit is missing from the archive, the next step of the run is its
\* failure; the walk never moves on past that unit.
C15_UnreadableFatal == [][MissingEntry => pc' = "failed"]_vars

(***************************************************************************)
(* Further properties of the substitution functions (SpecCalls).           *)
(***************************************************************************)
\* the normalized text of a raw block text: entities decoded, whitespace
\* runs collapsed
Normalized(s) == buildNormalized(unescapeWithMap(s).unescaped).norm

\* the composed map: normalized index k (0-based) to raw offset
ToSource(s, k) ==
    unescapeWithMap(s).mapUnesc[
        buildNormalized(unescapeWithMap(s).unescaped).map[k + 1] + 1]

\* normalized character c is what the entity, the maximal whitespace run or
\* the literal character starting at raw offset p stands for
ProducedAt(s, p, c) ==
    IF EntityAt(s, p) # 0 THEN c = Entities[EntityAt(s, p)].ch
    ELSE IF IsSpace(CharAt(s, p))
         THEN c = " " /\ (p = 0 \/ ~IsSpace(CharAt(s, p - 1)))
         ELSE c = CharAt(s, p)

Ascending(spans) == [k \in 1..Len(spans) |-> spans[Len(spans) - k + 1]]

\* the text with all spans replaced at once: the pieces between the spans,
\* from pos on, with the inserted text in place of each span
RECURSIVE Simultaneous(_, _, _, _, _)
Simultaneous(text, spans, k, pos, inserted) ==
    IF k > Len(spans) THEN SliceFrom(text, pos)
    ELSE Slice(text, pos, spans[k].origStart) \o inserted
             \o Simultaneous(text, spans, k + 1, spans[k].origEnd, inserted)

\* C20 (descending application order): the block-level result counts one
\* replacement per span of the matcher; every splice lies wholly before the
\* splices performed earlier, so its offsets are still those of the original
\* text; and the new text is the original text with all resolved spans
\* replaced at once.
C20_DescendingOrder ==
    Returned("_normalizedReplace") =>
        /\ ret.replacementCount = Len(ret.matches)
        /\ \A k \in 2..Len(ret.debugMatches) :
              ret.debugMatches[k].origEnd <= ret.debugMatches[k - 1].origStart
        /\ ret.newText = Simultaneous(call.text, Ascending(ret.debugMatches), 1, 0,
                                      call.replace)

(***************************************************************************)
(* Properties of the glossary and flat-text functions (SpecText).          *)
(***************************************************************************)
\* C18 (glossary rule order): in the Rule Set built from a glossary no rule's
\* find text is longer than the find text of a rule before it, whatever the
\* source language chosen.
C18_LongestFirst ==
    Returned("buildReplacementsFor") =>
        \A i \in 1..Len(ret.replacements) : \A j \in i..Len(ret.replacements) :
            Len(ret.replacements[i].find) >= Len(ret.replacements[j].find)

\* C19 (flat-text equivalence): on a plain line text the result of
\* performTextReplacement agrees with the block-level substitution of the
\* markup path on the same string: same count, found exactly when the count
\* is positive, same new text.
C19_FlatTextEquivalence ==
    Returned("performTextReplacement") =>
        LET ref == _normalizedReplace(call.text, call.find, call.replace,
                                      call.opts, ~call.opts.replaceAll)
        IN  /\ ret.count = ref.replacementCount
            /\ ret.found = (ref.replacementCount > 0)
            /\ ret.newText = ref.newText

(***************************************************************************)
(* Direct calls on boundary inputs: texts that contain entity characters,  *)
(* fragments with shared blocks, nested ranges and long neighbours.        *)
(***************************************************************************)
MaxEscapePieces == 3

EscapePieces == {"a", "&", "<", "&lt;", "'"}

EscapeCalls ==
    { [fn |-> "_escapeForXML", text |-> t, find |-> "", replace |-> "",
       opts |-> DefaultOptions, firstOnly |-> FALSE] :
        t \in Concats(EscapePieces, MaxEscapePieces) }

\* this._escapeForXML(text)
escapeForXMLCall ==
    /\ Pending("_escapeForXML")
    /\ ret' = [escaped |-> _escapeForXML(call.text)]
    /\ UNCHANGED << walkerVars, call >>

\* this._unescapeForXML(escaped), on the value the escape call returned
unescapeForXMLCall ==
    /\ Returned("_escapeForXML")
    /\ DOMAIN ret = {"escaped"}
    /\ ret' = [escaped |-> ret.escaped, unescaped |-> _unescapeForXML(ret.escaped)]
    /\ UNCHANGED << walkerVars, call >>

\* two block runs "Hello " + "World": the first one follows an element with a
\* long attribute value, the second one follows a long element that is not a
\* <Content> element
TwoRunFragment ==
    "<Story><Content Self=\"" \o PadText(PadLen)
        \o "\">Q</Content><Content>Hello </Content><Content>World</Content>"
        \o "<Br Self=\"" \o PadText(PadLen) \o PadText(PadLen) \o "\"/>"
        \o "<Content>Hello </Content><Content>World</Content></Story>"

EdgeFragments ==
    { TwoRunFragment,
      "<Story><Content>Tom </Content><Content>&amp; Co</Content></Story>",
      "<Story><Content>a&nbsp;Hello </Content><Content>World</Content></Story>",
      "<Story><Content>Hello </Content><Content>World</Content><Br/>"
          \o "<Content>Hello </Content><Content>World</Content></Story>",
      "<Story><Content>Hello </Content><Content>World Hello </Content>"
          \o "<Content>World</Content></Story>" }

EdgeQueries ==
    { [find |-> "Hello World", replace |-> "Hi"],
      [find |-> "Tom &",       replace |-> "X"] }

EdgeCrossCalls ==
    { [fn |-> "_replaceAcrossContentBlocks", text |-> t, find |-> q.find,
       replace |-> q.replace, opts |-> o, firstOnly |-> f] :
        t \in EdgeFragments, q \in EdgeQueries, o \in AllOptions, f \in BOOLEAN }

\* fragments for the block-level passes: inner text that occurs in the
\* element's own tag, inner text with a dollar sequence, a nested element
EdgeUnitFragments ==
    { "<Story><Content>t</Content></Story>",
      "<Story><Content>a</Content><Content>US$$5</Content></Story>",
      "<Story><Content>a cat</Content><Content>b</Content></Story>",
      "<Story><CharacterStyleRange><Content>cat</Content></CharacterStyleRange></Story>" }

EdgeUnitQueries ==
    { [find |-> "t",   replace |-> "X"],
      [find |-> "a",   replace |-> "X"],
      [find |-> "a",   replace |-> "$&"],
      [find |-> "cat", replace |-> "dog"],
      [find |-> "cat", replace |-> "cats"],
      [find |-> "cat", replace |-> "CAT"] }

EdgeUnitCalls ==
    { [fn |-> n, text |-> t, find |-> q.find, replace |-> q.replace, opts |-> o,
       firstOnly |-> (n = "performXMLTextReplacementOnce")] :
        n \in {"performXMLTextReplacement", "performXMLTextReplacementOnce"},
        t \in EdgeUnitFragments, q \in EdgeUnitQueries, o \in AllOptions }

EdgeCalls == EscapeCalls \cup EdgeCrossCalls \cup EdgeUnitCalls

InitEdge ==
    /\ idmlZip = << >>
    /\ storyFiles = << >>
    /\ walkFiles = << >>
    /\ modifiedFiles = << >>
    /\ replacements = << >>
    /\ ruleIndex = 1
    /\ unitIndex = 1
    /\ xmlContent = ""
    /\ totalReplacements = 0
    /\ replacementLog = << >>
    /\ outputZip = << >>
    /\ pc = "idle"
    /\ visits = << >>
    /\ uses = [loads |-> 0, runs |-> 0]
    /\ call \in EdgeCalls
    /\ ret = NoCall

NextEdge ==
    \/ escapeForXMLCall
    \/ unescapeForXMLCall
    \/ replaceAcrossContentBlocksCall
    \/ performXMLTextReplacementCall
    \/ performXMLTextReplacementOnceCall

SpecEdge == InitEdge /\ [][NextEdge]_vars

(***************************************************************************)
(* Properties on boundary inputs (specification SpecEdge).                 *)
(***************************************************************************)
RoundTripDone == Returned("_escapeForXML") /\ "unescaped" \in DOMAIN ret

\* C30: for every text t, _unescapeForXML(_escapeForXML(t)) = t; a text that
\* holds the characters of an entity is not decoded a second time.
C30_EscapeRoundTrip == RoundTripDone => ret.unescaped = call.text

\* all spans of the query in the combined, normalized text of a fragment
AllMatchesOf(xml, find, opts) ==
    LET c == combineBlocks(collectBlocks(xml, 0, << >>), 0, "", << >>)
    IN  findMatches(buildNormalized(c.combined).norm, normFindOf(find), opts, FALSE)

\* the apply loop run on the single span m of the unmodified fragment
AppliedAlone(xml, m, replace) ==
    LET blocks == collectBlocks(xml, 0, << >>)
        c      == combineBlocks(blocks, 0, "", << >>)
    IN  crossApplyAll(xml, blocks, normMapOf(c, buildNormalized(c.combined)),
                      << m >>, replace, TRUE)

\* span m passes the safety gate and the tag-balance check
PassesChecks(xml, m, replace) == AppliedAlone(xml, m, replace).count = 1

\* C21: in first-occurrence mode a cross-block match that passes both checks
\* is applied even though the leftmost match of the unit was rejected.
C21_RecoveryFirstOnly ==
    (Returned("_replaceAcrossContentBlocks") /\ call.firstOnly)
        => LET all == AllMatchesOf(call.text, call.find, call.opts)
           IN  (\E k \in 1..Len(all) : PassesChecks(call.text, all[k], call.replace))
                   => ret.count = 1

\* the XML-decoded text of a raw inner text
Decoded(s) == unescapeWithMap(s).unescaped

\* offset in the combined text at which the decoded text of block b starts
RECURSIVE BlockOffset(_, _)
BlockOffset(blocks, b) ==
    IF b = 0 THEN 0
    ELSE BlockOffset(blocks, b - 1) + Len(Decoded(blocks[b].inner)) + 1

RECURSIVE CountOf(_, _)
CountOf(s, pat) ==
    IF IndexOf(s, pat, 0) = -1 THEN 0
    ELSE 1 + CountOf(SliceFrom(s, IndexOf(s, pat, 0) + Len(pat)), pat)

\* an entity sequence that is not one of the five predefined ones
OtherEntity == "&nbsp;"

\* decoded prefix of the first block + replacement + decoded suffix of the last
\* block of span m, read off the combined text
ExpectedInner(xml, m, replace) ==
    LET blocks == collectBlocks(xml, 0, << >>)
        c      == combineBlocks(blocks, 0, "", << >>)
        normd  == buildNormalized(c.combined)
        first  == normd.map[m.start + 1]
        last   == normd.map[m.end]
        sb     == c.combinedMap[first + 1].blockIndex
        eb     == c.combinedMap[last + 1].blockIndex
    IN  Slice(c.combined, BlockOffset(blocks, sb), first)
            \o replace
            \o Slice(c.combined, last + 1,
                     BlockOffset(blocks, eb) + Len(Decoded(blocks[eb + 1].inner)))

\* raw inner text of the element that replaced the blocks of span sp
NewInner(xml, newXml, sp) ==
    LET at == collectBlocks(xml, 0, << >>)[sp.startBlock + 1].fullStart
        nb == elementMatchFrom(newXml, "Content", at)
    IN  Slice(newXml, nb.innerStart, nb.innerEnd)

SingleCrossEdit ==
    /\ Returned("_replaceAcrossContentBlocks")
    /\ Len(ret.matches) = 1
    /\ ret.count = 1

\* C22: the decoded text of the new element is the decoded prefix of the first
\* block, the replacement and the decoded suffix of the last block (a matched
\* entity is consumed whole), and entity sequences outside the five
\* predefined ones keep their raw form.
C22_ContentPreserved ==
    SingleCrossEdit
        => LET expected == ExpectedInner(call.text, ret.matches[1], call.replace)
               inner    == NewInner(call.text, ret.newXml, ret.debugMatches[1])
           IN  /\ Decoded(inner) = expected
               /\ CountOf(inner, OtherEntity) = CountOf(expected, OtherEntity)

\* offsets of the original fragment that bound the block runs of the applied
\* spans: the first block's start and the last block's end
RunsStart(xml, spans) ==
    LET blocks == collectBlocks(xml, 0, << >>)
    IN  CHOOSE lo \in {blocks[spans[k].startBlock + 1].fullStart : k \in 1..Len(spans)} :
            \A k \in 1..Len(spans) : lo <= blocks[spans[k].startBlock + 1].fullStart

RunsEnd(xml, spans) ==
    LET blocks == collectBlocks(xml, 0, << >>)
    IN  CHOOSE hi \in {blocks[spans[k].endBlock + 1].fullEnd : k \in 1..Len(spans)} :
            \A k \in 1..Len(spans) : hi >= blocks[spans[k].endBlock + 1].fullEnd

ManyCrossEdits ==
    /\ Returned("_replaceAcrossContentBlocks")
    /\ ~call.firstOnly
    /\ ret.count > 1

\* C26: with several cross-block matches in one unit the markup before the
\* first matched run and after the last one is unchanged, and the result holds
\* as many replacements as the returned count says.
C26_ManyCrossMatches ==
    ManyCrossEdits
        => LET lo == RunsStart(call.text, ret.debugMatches)
               hi == RunsEnd(call.text, ret.debugMatches)
           IN  /\ Slice(ret.newXml, 0, lo) = Slice(call.text, 0, lo)
               /\ SliceFrom(ret.newXml, Len(ret.newXml) - (Len(call.text) - hi))
                      = SliceFrom(call.text, hi)
               /\ CountOf(ret.newXml, _escapeForXML(call.replace)) >= ret.count

\* the block span of match m of a fragment, as the apply loop resolves it
SpanOf(xml, m) ==
    LET c       == combineBlocks(collectBlocks(xml, 0, << >>), 0, "", << >>)
        normMap == normMapOf(c, buildNormalized(c.combined))
    IN  crossSpan(m, normMapEntry(normMap, m.start), normMapEntry(normMap, m.end - 1))

\* the candidate fragment of the match the apply loop examines first
FirstCandidate ==
    candidateOf(call.text, collectBlocks(call.text, 0, << >>),
                SpanOf(call.text, ret.matches[Len(ret.matches)]), call.replace)

Applied(sp) == \E k \in 1..Len(ret.debugMatches) : ret.debugMatches[k] = sp

\* C27: a candidate whose <Content> open and close tags are equal in number
\* over the whole fragment is never discarded by the windowed balance check.
C27_NoFalseRejection ==
    (Returned("_replaceAcrossContentBlocks") /\ Len(ret.matches) > 0)
        => LET sp == SpanOf(call.text, ret.matches[Len(ret.matches)])
           IN  (/\ sp.startBlock >= 0
                /\ sp.endBlock >= 0
                /\ insideBlocks(collectBlocks(call.text, 0, << >>), sp)
                /\ safetyGate(call.text, collectBlocks(call.text, 0, << >>),
                              sp.startBlock, sp.endBlock)
                /\ tagsBalanced(call.text)
                /\ tagsBalanced(FirstCandidate))
                   => Applied(sp)

(***************************************************************************)
(* The match-search loops, one loop iteration per step (SpecSearch).       *)
(* call holds the arguments and the locals of the loop: execSource, term,  *)
(* idx, matches, and searching (FALSE once the loop is left); iteration    *)
(* counts the passes through the loop body.                                *)
(***************************************************************************)
\* entries of the match list the model keeps; pushes beyond it are not recorded
MaxMatches == 3

\* the pass counter is kept modulo this number
IterationWrap == 4

SearchTexts == {"a", "a b", "a a", "ab ab"}

SearchFinds == {"a", "b", "a b", "ab", " ", "  "}

\* the normalized haystack the loop of fn searches
searchHaystack(fn, text) ==
    IF fn = "_normalizedReplace"
    THEN buildNormalized(unescapeWithMap(text).unescaped).norm
    ELSE buildNormalized(combineBlocks(collectBlocks(text, 0, << >>), 0, "",
                                       << >>).combined).norm

\* haystack and term as the loop reads them (lower-cased unless caseSensitive)
foldFor(opts, s) == IF opts.caseSensitive THEN s ELSE ToLowerCase(s)

SearchCalls ==
    { [fn |-> n, text |-> IF n = "_normalizedReplace" THEN t
                          ELSE "<Story><Content>" \o t \o "</Content></Story>",
       find |-> f, replace |-> "X", opts |-> o, firstOnly |-> fo] :
        n \in {"_normalizedReplace", "_replaceAcrossContentBlocks"},
        t \in SearchTexts, f \in SearchFinds, o \in AllOptions, fo \in BOOLEAN }

\* the locals at loop entry: let idx = 0; const matches = []
loopEntry(c) ==
    [fn |-> c.fn, text |-> c.text, find |-> c.find, replace |-> c.replace,
     opts |-> c.opts, firstOnly |-> c.firstOnly,
     execSource |-> foldFor(c.opts, searchHaystack(c.fn, c.text)),
     term |-> foldFor(c.opts, normFindOf(c.find)),
     idx |-> 0, matches |-> << >>, searching |-> TRUE, iteration |-> 0]

\* one more pass through the loop body
nextPass(c) == [c EXCEPT !.iteration = (@ + 1) % IterationWrap]

\* matches.push({ start, end })
pushMatch(matches, foundAt, term) ==
    IF Len(matches) < MaxMatches
    THEN Append(matches, [start |-> foundAt, end |-> foundAt + Len(term)])
    ELSE matches

\* one iteration of the while (true) loop of the wholeWords branch
wholeWordIterationAt(c, foundAt) ==
    IF foundAt = -1
    THEN [c EXCEPT !.searching = FALSE]
    ELSE IF boundaryOk(c.execSource, c.term, foundAt)
         THEN IF c.firstOnly
              THEN [c EXCEPT !.matches = pushMatch(c.matches, foundAt, c.term),
                             !.searching = FALSE]
              ELSE [c EXCEPT !.matches = pushMatch(c.matches, foundAt, c.term),
                             !.idx = foundAt + 1]
         ELSE [c EXCEPT !.idx = foundAt + 1]

wholeWordIteration ==
    /\ ret = NoCall
    /\ call.searching
    /\ call.opts.wholeWords
    /\ call' = nextPass(wholeWordIterationAt(call, IndexOf(call.execSource, call.term,
                                                           call.idx)))
    /\ UNCHANGED << walkerVars, ret >>

\* one iteration of the while (true) loop of the else branch
plainIterationAt(c, foundAt) ==
    IF foundAt = -1
    THEN [c EXCEPT !.searching = FALSE]
    ELSE IF c.firstOnly
         THEN [c EXCEPT !.matches = pushMatch(c.matches, foundAt, c.term),
                        !.searching = FALSE]
         ELSE [c EXCEPT !.matches = pushMatch(c.matches, foundAt, c.term),
                        !.idx = foundAt + Len(c.term)]

plainIteration ==
    /\ ret = NoCall
    /\ call.searching
    /\ ~call.opts.wholeWords
    /\ call' = nextPass(plainIterationAt(call, IndexOf(call.execSource, call.term,
                                                       call.idx)))
    /\ UNCHANGED << walkerVars, ret >>

\* the loop is left: the match list goes to the apply loop
searchReturn ==
    /\ ret = NoCall
    /\ ~call.searching
    /\ ret' = [matches |-> call.matches]
    /\ UNCHANGED << walkerVars, call >>

InitSearch ==
    /\ idmlZip = << >>
    /\ storyFiles = << >>
    /\ walkFiles = << >>
    /\ modifiedFiles = << >>
    /\ replacements = << >>
    /\ ruleIndex = 1
    /\ unitIndex = 1
    /\ xmlContent = ""
    /\ totalReplacements = 0
    /\ replacementLog = << >>
    /\ outputZip = << >>
    /\ pc = "idle"
    /\ visits = << >>
    /\ uses = [loads |-> 0, runs |-> 0]
    /\ call \in {loopEntry(c) : c \in SearchCalls}
    /\ ret = NoCall

NextSearch ==
    \/ wholeWordIteration
    \/ plainIteration
    \/ searchReturn

\* the loops run on one thread to completion: a step that can be taken is taken
SpecSearch == InitSearch /\ [][NextSearch]_vars /\ WF_vars(NextSearch)

(***************************************************************************)
(* Properties of the search loops (specification SpecSearch).              *)
(***************************************************************************)
\* C28: for every accepted rule, a whitespace-only find included, the search
\* loops are left in plain and whole-word mode, first-only and all-matches.
C28_SearchTerminates == <>(ret # NoCall)

(***************************************************************************)
(* Properties of the block-level passes (specification SpecEdge).          *)
(***************************************************************************)
\* The fragment with the inner text of every <Content> element replaced by the
\* block substitution of that inner text and every other character kept; with
\* firstOnly only the first element that has a match is edited.
RECURSIVE InnerTextsEdited(_, _, _, _, _, _, _)
InnerTextsEdited(xml, from, find, replace, opts, firstOnly, done) ==
    LET b == elementMatchFrom(xml, "Content", from)
    IN  IF b = NoBlock THEN SliceFrom(xml, from)
        ELSE LET inner == Slice(xml, b.innerStart, b.innerEnd)
                 res   == replaceTextContent(inner, find, replace, opts, firstOnly)
             IN  Slice(xml, from, b.innerStart)
                     \o (IF firstOnly /\ done THEN inner ELSE res.newText)
                     \o Slice(xml, b.innerEnd, b.fullEnd)
                     \o InnerTextsEdited(xml, b.fullEnd, find, replace, opts, firstOnly,
                                         done \/ res.replacementCount > 0)

UnitReturned ==
    \/ Returned("performXMLTextReplacement")
    \/ Returned("performXMLTextReplacementOnce")

BlockLevelEdit ==
    /\ UnitReturned
    /\ ret.matchType = "block-level"
    /\ ret.count > 0

Nested(xml) == IndexOf(xml, "<CharacterStyleRange", 0) # -1

\* C24: a block-level substitution leaves the tags of every <Content> element
\* and the inner text of every element without a match unchanged, and changes
\* only the resolved spans of a matching element.
C24_OnlyMatchedText ==
    (BlockLevelEdit /\ ~Nested(call.text))
        => ret.newXml = InnerTextsEdited(call.text, 0, call.find, call.replace,
                                         call.opts, call.firstOnly, FALSE)

\* number of match spans of the query in the <Content> blocks of a fragment
RECURSIVE SpansIn(_, _, _, _)
SpansIn(xml, from, find, opts) ==
    LET b == elementMatchFrom(xml, "Content", from)
    IN  IF b = NoBlock THEN 0
        ELSE Len(_normalizedReplace(Slice(xml, b.innerStart, b.innerEnd), find, "",
                                    opts, FALSE).matches)
                 + SpansIn(xml, b.fullEnd, find, opts)

\* C25: in all-occurrences mode the count of a unit is the number of match
\* spans in its blocks as they were before the rule, and text the rule
\* inserted is not matched again by the same rule.
C25_CountedOnce ==
    (/\ Returned("performXMLTextReplacement")
     /\ ret.matchType = "block-level"
     /\ IndexOf(call.replace, "$", 0) = -1)
        => /\ ret.count = SpansIn(call.text, 0, call.find, call.opts)
           /\ Nested(call.text)
                  => ret.newXml = InnerTextsEdited(call.text, 0, call.find,
                                                   call.replace, call.opts, FALSE, FALSE)

(***************************************************************************)
(* The Edited-Unit set and the packaging validation (specification Spec).  *)
(***************************************************************************)
\* the packaging step is next: all rules are walked
AtPackaging == pc = "walk" /\ ruleIndex > Len(replacements)

\* the parse createModifiedIDML runs over the Edited-Unit set
PackagingValidationPasses ==
    \A path \in DOMAIN modifiedFiles : wellFormed(modifiedFiles[path])

\* path was stored by a visit that passed the per-edit validation
StoredByValidatedVisit(path) ==
    \E k \in 1..Len(visits) :
        /\ visits[k].unit = path
        /\ visits[k].accepted
        /\ visits[k].count > 0
        /\ visits[k].result = modifiedFiles[path]
        /\ wellFormed(visits[k].result)

\* C29: every fragment in modifiedFiles was stored by a visit whose result
\* passed the well-formedness parse, so the validation of createModifiedIDML
\* passes whenever packaging is reached and no run ends in a failed packaging.
C29_EditedUnitsValid ==
    /\ \A path \in DOMAIN modifiedFiles : StoredByValidatedVisit(path)
    /\ AtPackaging => PackagingValidationPasses
    /\ pc \in {"walk", "apply", "done"}

\* a packaged run in which every unit has an edited fragment and an earlier
\* edit was turned down by the per-edit validation
C29_Witness ==
    /\ pc = "done"
    /\ \A i \in 1..Len(storyFiles) : storyFiles[i] \in DOMAIN modifiedFiles
    /\ \E k \in 1..Len(visits) : visits[k].count > 0 /\ ~visits[k].accepted

(***************************************************************************)
(* Runs on containers with a designmap.xml (specification SpecLoad).       *)
(***************************************************************************)
MaxRefs == 2

\* paths a StoryRef can name: the two stories, a story that is not in the
\* container, an entry that is not a story
RefPool == {StoryPath(1), StoryPath(2), StoryPath(3), "Resources/Images/img.png"}

RECURSIVE designMapBody(_, _)
designMapBody(refs, i) ==
    IF i > Len(refs) THEN ""
    ELSE "<StoryRef Self=\"" \o refs[i] \o "\"/>" \o designMapBody(refs, i + 1)

DesignMapOf(refs) == "<Document>" \o designMapBody(refs, 1) \o "</Document>"

LoadStories ==
    (StoryPath(1) :> "<Story><Content>A</Content></Story>")
        @@ (StoryPath(2) :> "<Story><Content>A B</Content></Story>")

LoadContainers ==
    {LoadStories @@ OtherEntries}
        \cup {LoadStories @@ OtherEntries @@ ("designmap.xml" :> DesignMapOf(refs)) :
                  refs \in UNION {[1..n -> RefPool] : n \in 0..MaxRefs}}

LoadRules ==
    { [find |-> "A", replace |-> "B", replaceAll |-> TRUE],
      [find |-> "A", replace |-> "B", replaceAll |-> FALSE],
      [find |-> "A", replace |-> "",  replaceAll |-> FALSE] }

\* the state when a run starts on a container that loadIDML has loaded
InitLoad ==
    /\ idmlZip \in LoadContainers
    /\ storyFiles = storyFilesOf(idmlZip)
    /\ walkFiles = storyFiles
    /\ modifiedFiles = << >>
    /\ replacements \in UNION {[1..n -> LoadRules] : n \in 1..MaxRules}
    /\ ruleIndex = 1
    /\ unitIndex = 1
    /\ xmlContent = ""
    /\ totalReplacements = 0
    /\ replacementLog = << >>
    /\ outputZip = << >>
    /\ pc = "walk"
    /\ visits = << >>
    /\ uses = [loads |-> 1, runs |-> 1]
    /\ call = NoCall
    /\ ret = NoCall

SpecLoad == InitLoad /\ [][Next]_vars

\* number of positions of the unit list that hold path
ListedTimes(path) == Cardinality({i \in 1..Len(storyFiles) : storyFiles[i] = path})

\* number of visits of rule r to path
VisitedTimes(r, path) ==
    Cardinality({k \in 1..Len(visits) : visits[k].rule = r /\ visits[k].unit = path})

\* C23: after loadIDML the unit list holds every Stories/*.xml entry of the
\* container exactly once, and a finished run has visited every such entry
\* exactly once for every all-occurrences rule.
C23_UnitCoverage ==
    \A path \in DOMAIN idmlZip :
        isStoryPath(path)
            => /\ ListedTimes(path) = 1
               /\ pc = "done"
                      => \A r \in 1..Len(replacements) :
                            (replacements[r].replaceAll /\ ~ruleSkipped(replacements[r]))
                                => VisitedTimes(r, path) = 1
====
